---- MODULE Spec2Model ----
(***************************************************************************)
(* A model of the unified test runner of pkg/testrunner: TestRunner.Run    *)
(* with its two backends (fastBackend, accurateBackend), the construction  *)
(* and Setup fallback from Accurate to Fast mode, the evaluation loop over *)
(* (resource, policy) pairs, the aggregation of the status counts and the  *)
(* teardown.                                                               *)
(*                                                                         *)
(* Conventions.  A Go error is the sequence of the message parts of its    *)
(* %w chain, outermost first; the nil error is the empty sequence, and     *)
(* err.Error() is the sequence itself.  A pointer that may be nil is a     *)
(* sequence of length 0 (nil) or 1.  A formatted message is the sequence   *)
(* of its fixed text and its arguments.  Wall-clock durations are not      *)
(* modelled.                                                               *)
(***************************************************************************)
EXTENDS Integers, Sequences, FiniteSets, TLC

VARIABLES
    config,     \* TestRunner.config
    backend,    \* TestRunner.backend: index into heap, 0 when nil
    heap,       \* the backend objects constructed so far, in order
    out,        \* what was written to TestRunner.out, one tag per line
    pc,         \* position inside Run
    policies,   \* argument of Run
    resources,  \* argument of Run
    summary,    \* Run's local *TestSummary
    ret,        \* what Run returned: [summary, err]; summary: TRUE when it
                \* is the pointer summary, FALSE when it is nil
    trace,      \* history of the backend calls and of the pairs evaluated
    resolver,   \* the MockResolver under test: nil or its maps
    server,     \* the HTTPMockServer under test: nil or its mock list
    requests,   \* the requests the handler goroutines of server are serving
    disco,      \* the enhancedFakeDiscovery under test: nil or its fields
    reply       \* the last call on resolver, server or disco and its result

(* the state of a runner *)
runnerVars == <<config, backend, heap, out, pc, policies, resources, summary,
                ret, trace>>

(* the state of the mock components, which Run does not touch *)
mockVars == <<resolver, server, requests, disco, reply>>

vars == <<config, backend, heap, out, pc, policies, resources, summary, ret,
          trace, resolver, server, requests, disco, reply>>

----------------------------------------------------------------------------
(* Bounds of the model *)

(* the policies and the resources of one call of Run, and the rules of    *)
(* its policies all together                                               *)
MaxPolicies == 2
MaxResources == 2
MaxRules == 2

----------------------------------------------------------------------------
(* mode.go *)

ModeFast == "fast"
ModeAccurate == "accurate"

NoError == <<>>

Errorf(text, err) == <<text>> \o err

(* Validate without its check of the resource paths *)
ValidateNoResources(c) ==
    IF c.Mode # ModeFast /\ c.Mode # ModeAccurate
    THEN <<"invalid mode", c.Mode>>
    ELSE IF Len(c.PolicyPaths) = 0
    THEN <<"at least one policy path is required">>
    ELSE NoError

Validate(c) ==
    IF c.Mode # ModeFast /\ c.Mode # ModeAccurate
    THEN <<"invalid mode", c.Mode>>
    ELSE IF Len(c.PolicyPaths) = 0
    THEN <<"at least one policy path is required">>
    ELSE IF Len(c.ResourcePaths) = 0
    THEN <<"at least one resource path is required">>
    ELSE NoError

Description(m) ==
    IF m = ModeFast THEN "Fast Mode (Smart Mocks)"
    ELSE IF m = ModeAccurate THEN "Accurate Mode (envtest)"
    ELSE "Unknown mode"

----------------------------------------------------------------------------
(* The inputs: configurations, policies and resources *)

Modes == {ModeFast, ModeAccurate, "invalid"}

PathLists == {<<>>, <<"test.yaml">>}

Configs ==
    [Mode : Modes, AutoFallback : BOOLEAN,
     PolicyPaths : PathLists, ResourcePaths : PathLists]

Kinds == {"Pod", "Deployment"}

Rule(name, kinds, v, m, g, i) ==
    [Name |-> name, Kinds |-> kinds, Validate |-> v, Mutate |-> m,
     Generate |-> g, VerifyImages |-> i]

RuleCatalogue ==
    { Rule("check-team", <<"Pod">>, TRUE, FALSE, FALSE, FALSE),
      Rule("add-labels", <<"Deployment">>, FALSE, TRUE, FALSE, FALSE),
      Rule("gen-netpol", <<"Deployment", "Pod">>, FALSE, FALSE, TRUE, FALSE),
      Rule("verify-image", <<"Deployment">>, FALSE, FALSE, FALSE, TRUE),
      Rule("no-op", <<"Pod">>, FALSE, FALSE, FALSE, FALSE) }

SeqsUpTo(S, n) == UNION { [1..k -> S] : k \in 0..n }

PolicyNames == <<"pol-a", "pol-b", "pol-c", "pol-d">>

RECURSIVE SumTo(_, _)
SumTo(lens, k) == IF k = 0 THEN 0 ELSE lens[k] + SumTo(lens, k - 1)

(* the lists of at most n rules of the catalogue, each rule at most once *)
RuleLists(n) ==
    { fl \in SeqsUpTo(RuleCatalogue, n) :
        \A a, b \in 1..Len(fl) : fl[a] = fl[b] => a = b }

(* the policy lists of at most MaxPolicies policies with at most MaxRules  *)
(* rules all together, no rule in two places: a list of rules cut into     *)
(* consecutive pieces, the k-th piece being the rules of the k-th policy   *)
PolicyLists ==
    { [k \in 1..Len(lens) |->
          [Name |-> PolicyNames[k],
           Rules |-> SubSeq(flat, SumTo(lens, k - 1) + 1, SumTo(lens, k))]] :
        <<flat, lens>> \in
          { fl \in RuleLists(MaxRules) \X SeqsUpTo(0..MaxRules, MaxPolicies) :
              SumTo(fl[2], Len(fl[2])) = Len(fl[1]) } }

ResourceCatalogue ==
    { [Kind |-> "Pod", Namespace |-> "default", Name |-> "web"],
      [Kind |-> "Deployment", Namespace |-> "", Name |-> "api"] }

ResourceLists == SeqsUpTo(ResourceCatalogue, MaxResources)

----------------------------------------------------------------------------
(* The backends (fastBackend, accurateBackend) *)

(* A backend object.  kind: the concrete type; ready, client (TRUE: not   *)
(* nil): its fields; disco: fastBackend.disco was built; testEnv: the      *)
(* accurateBackend.testEnv pointer is set; starts, stops: the calls of     *)
(* testEnv.Start that succeeded and the calls of testEnv.Stop; store: the  *)
(* objects held by the fake client of a fastBackend.                       *)

newFastBackend ==
    [kind |-> ModeFast, ready |-> FALSE, client |-> FALSE, disco |-> FALSE,
     testEnv |-> FALSE, starts |-> 0, stops |-> 0, store |-> <<>>]

newAccurateBackend ==
    [kind |-> ModeAccurate, ready |-> FALSE, client |-> FALSE, disco |-> FALSE,
     testEnv |-> FALSE, starts |-> 0, stops |-> 0, store |-> <<>>]

Mode(b) == b.kind

IsReady(b) == b.ready

Client(b) == b.client

(* fastBackend.Setup.  clientOK: whether dclient.NewClient succeeded.  The *)
(* discovery registry is built before the client; every object with a kind *)
(* is kept in the in-memory store.                                         *)
fastSetup(b, objs, clientOK) ==
    LET seeded == SelectSeq(objs, LAMBDA o : o.Kind # "")
        b1 == [b EXCEPT !.disco = TRUE]
    IN  IF ~clientOK
        THEN [b |-> b1,
              err |-> Errorf("failed to create fake client", <<"dclient error">>)]
        ELSE [b |-> [b1 EXCEPT !.store = seeded, !.client = TRUE, !.ready = TRUE],
              err |-> NoError]

(* fastBackend.Teardown that clears ready and keeps the client *)
fastTeardownKeepClient(b) ==
    [b |-> [b EXCEPT !.ready = FALSE], err |-> NoError]

fastTeardown(b) ==
    [b |-> [b EXCEPT !.client = FALSE, !.ready = FALSE], err |-> NoError]

(* seedObjects that returns the error of the first create that fails *)
RECURSIVE seedObjectsFailFast(_, _, _)
seedObjectsFailFast(objs, created, k) ==
    IF k > Len(objs) THEN NoError
    ELSE IF ~created[k] THEN <<"create failed">>
    ELSE seedObjectsFailFast(objs, created, k + 1)

(* accurateBackend.seedObjects, from object k on: the error it returns.   *)
(* created[k]: the create call for the k-th object succeeded.  The objects *)
(* created live in the external API server, not in the backend; a failed   *)
(* create is skipped.                                                      *)
RECURSIVE seedObjects(_, _, _)
seedObjects(objs, created, k) ==
    IF k > Len(objs) THEN NoError
    ELSE IF ~created[k]
    THEN seedObjects(objs, created, k + 1)
    ELSE seedObjects(objs, created, k + 1)

AccurateFailures == {"start", "dynamic", "kubernetes", "dclient"}

(* accurateBackend.Setup with ready set as soon as the environment has    *)
(* started, so that a later failure leaves it set                          *)
accurateSetupReadyEarly(b, objs, failAt, created) ==
    LET b0 == [b EXCEPT !.testEnv = TRUE]
        b1 == [b0 EXCEPT !.starts = @ + 1, !.ready = TRUE]
        stopped == [b1 EXCEPT !.stops = @ + 1]
    IN  IF failAt = "start"
        THEN [b |-> b0, err |-> <<"failed to start envtest environment">>]
        ELSE IF failAt # "none"
        THEN [b |-> stopped, err |-> <<"failed to create client">>]
        ELSE [b |-> [b1 EXCEPT !.client = TRUE], err |-> NoError]

(* accurateBackend.Setup that returns the error of a client constructor   *)
(* without stopping the environment it started                             *)
accurateSetupLeaking(b, objs, failAt, created) ==
    LET b0 == [b EXCEPT !.testEnv = TRUE]
        b1 == [b0 EXCEPT !.starts = @ + 1]
    IN  IF failAt = "start"
        THEN [b |-> b0, err |-> <<"failed to start envtest environment">>]
        ELSE IF failAt # "none"
        THEN [b |-> b1, err |-> <<"failed to create client">>]
        ELSE [b |-> [b1 EXCEPT !.client = TRUE, !.ready = TRUE], err |-> NoError]

(* accurateBackend.Setup.  failAt: the step that fails ("none": no step).  *)
accurateSetup(b, objs, failAt, created) ==
    LET b0 == [b EXCEPT !.testEnv = TRUE]
        b1 == [b0 EXCEPT !.starts = @ + 1]
        stopped == [b1 EXCEPT !.stops = @ + 1]
    IN  IF failAt = "start"
        THEN [b |-> b0,
              err |-> <<"failed to start envtest environment", "envtest error",
                        "(ensure envtest binaries are installed via 'setup-envtest use')">>]
        ELSE IF failAt = "dynamic"
        THEN [b |-> stopped,
              err |-> Errorf("failed to create dynamic client", <<"config error">>)]
        ELSE IF failAt = "kubernetes"
        THEN [b |-> stopped,
              err |-> Errorf("failed to create kubernetes client", <<"config error">>)]
        ELSE IF failAt = "dclient"
        THEN [b |-> stopped,
              err |-> Errorf("failed to create dclient", <<"dclient error">>)]
        ELSE IF seedObjects(objs, created, 1) # NoError
        THEN [b |-> [stopped EXCEPT !.client = TRUE],
              err |-> Errorf("failed to seed objects", seedObjects(objs, created, 1))]
        ELSE [b |-> [b1 EXCEPT !.client = TRUE, !.ready = TRUE],
              err |-> NoError]

(* accurateBackend.Teardown.  stopOK: whether testEnv.Stop succeeded.      *)
accurateTeardown(b, stopOK) ==
    IF b.testEnv /\ ~stopOK
    THEN [b |-> [b EXCEPT !.stops = @ + 1],
          err |-> Errorf("failed to stop envtest", <<"stop error">>)]
    ELSE [b |-> [b EXCEPT !.stops = IF b.testEnv THEN @ + 1 ELSE @,
                          !.client = FALSE, !.ready = FALSE],
          err |-> NoError]

----------------------------------------------------------------------------
(* Evaluation (policyMatchesResource, evaluatePolicyRules) *)

(* kind occurs in the list kinds, scanned from position k *)
RECURSIVE kindListed(_, _, _)
kindListed(kinds, kind, k) ==
    IF k > Len(kinds) THEN FALSE
    ELSE IF kinds[k] = kind THEN TRUE
    ELSE kindListed(kinds, kind, k + 1)

(* the loop of policyMatchesResource over spec.Rules, from rule k *)
RECURSIVE rulesMatch(_, _, _)
rulesMatch(rules, kind, k) ==
    IF k > Len(rules) THEN FALSE
    ELSE IF kindListed(rules[k].Kinds, kind, 1) THEN TRUE
    ELSE rulesMatch(rules, kind, k + 1)

(* policyMatchesResource without the comparison of the kinds *)
policyHasRules(pol, resource) == Len(pol.Rules) > 0

policyMatchesResource(pol, resource) == rulesMatch(pol.Rules, resource.Kind, 1)

TestResult(pol, rule, resource, status, message, mode) ==
    [PolicyName |-> pol, RuleName |-> rule, ResourceName |-> resource.Name,
     ResourceNamespace |-> resource.Namespace, ResourceKind |-> resource.Kind,
     Status |-> status, Message |-> message, Mode |-> mode]

(* ruleResult without the branch for the image verification rules *)
ruleResultNoImages(pol, rule, resource, mode) ==
    IF rule.Validate
    THEN TestResult(pol.Name, rule.Name, resource, "pass",
                    <<"validation rule evaluated", rule.Name, mode>>, mode)
    ELSE IF rule.Mutate
    THEN TestResult(pol.Name, rule.Name, resource, "pass",
                    <<"mutation rule evaluated", rule.Name, mode>>, mode)
    ELSE IF rule.Generate
    THEN TestResult(pol.Name, rule.Name, resource, "pass",
                    <<"generation rule evaluated", rule.Name, mode>>, mode)
    ELSE TestResult(pol.Name, rule.Name, resource, "skip",
                    <<"no actionable rule type">>, mode)

(* the result evaluatePolicyRules builds for one rule *)
ruleResult(pol, rule, resource, mode) ==
    IF rule.Validate
    THEN TestResult(pol.Name, rule.Name, resource, "pass",
                    <<"validation rule evaluated", rule.Name, mode>>, mode)
    ELSE IF rule.Mutate
    THEN TestResult(pol.Name, rule.Name, resource, "pass",
                    <<"mutation rule evaluated", rule.Name, mode>>, mode)
    ELSE IF rule.Generate
    THEN TestResult(pol.Name, rule.Name, resource, "pass",
                    <<"generation rule evaluated", rule.Name, mode>>, mode)
    ELSE IF rule.VerifyImages
    THEN TestResult(pol.Name, rule.Name, resource, "pass",
                    <<"image verification rule evaluated", rule.Name, mode>>, mode)
    ELSE TestResult(pol.Name, rule.Name, resource, "skip",
                    <<"no actionable rule type">>, mode)

(* the loop of evaluatePolicyRules over spec.Rules, from rule k *)
RECURSIVE rulesFrom(_, _, _, _)
rulesFrom(pol, resource, mode, k) ==
    IF k > Len(pol.Rules) THEN <<>>
    ELSE <<ruleResult(pol, pol.Rules[k], resource, mode)>>
         \o rulesFrom(pol, resource, mode, k + 1)

evaluatePolicyRules(pol, resource, mode) == rulesFrom(pol, resource, mode, 1)

(* what one pass of the inner loop of evaluatePolicies appends *)
evaluatePair(pol, resource, mode) ==
    IF ~policyMatchesResource(pol, resource)
    THEN <<TestResult(pol.Name, "", resource, "skip",
                      <<"policy does not match resource">>, mode)>>
    ELSE evaluatePolicyRules(pol, resource, mode)

(* an entry of the history: a backend call (op "Setup" or "Teardown", on   *)
(* heap[b], err: the error it returned, objs: the objects it was given) or *)
(* one pass of the inner loop of evaluatePolicies (op "Eval", with the     *)
(* backend heap[b], for resources[i] and policies[j]; emitted: the results *)
(* it appended)                                                            *)
Event(op, b, err, objs, i, j, emitted) ==
    [op |-> op, b |-> b, err |-> err, objs |-> objs, ri |-> i, pj |-> j,
     emitted |-> emitted]

(* the inner loop putting the pass of each policy before those of the     *)
(* policies it has seen                                                    *)
policyLoopPrepending(b, bi, pols, rs, i, j) ==
    [k \in 1..(Len(pols) - j + 1) |->
        Event("Eval", bi, NoError, <<>>, i, Len(pols) - k + 1,
              evaluatePair(pols[Len(pols) - k + 1], rs[i], Mode(b)))]

(* evaluatePolicies, the inner loop: the passes for resource i and the     *)
(* policies from j on                                                      *)
RECURSIVE policyLoop(_, _, _, _, _, _)
policyLoop(b, bi, pols, rs, i, j) ==
    IF j > Len(pols) THEN <<>>
    ELSE <<Event("Eval", bi, NoError, <<>>, i, j, evaluatePair(pols[j], rs[i], Mode(b)))>>
         \o policyLoop(b, bi, pols, rs, i, j + 1)

(* the outer loop leaving after its first resource *)
resourceLoopFirstOnly(b, bi, pols, rs, i) ==
    IF i > Len(rs) THEN <<>>
    ELSE policyLoop(b, bi, pols, rs, i, 1)

(* evaluatePolicies, the outer loop: the passes for the resources from i on *)
RECURSIVE resourceLoop(_, _, _, _, _)
resourceLoop(b, bi, pols, rs, i) ==
    IF i > Len(rs) THEN <<>>
    ELSE policyLoop(b, bi, pols, rs, i, 1) \o resourceLoop(b, bi, pols, rs, i + 1)

(* evaluatePolicies with the backend b = heap[bi]: the passes of its loop  *)
(* in order, or the error it returns before the loop                       *)
evaluatePolicies(b, pols, rs, bi) ==
    IF ~Client(b)
    THEN [passes |-> <<>>, err |-> <<"backend client is nil">>]
    ELSE [passes |-> resourceLoop(b, bi, pols, rs, 1), err |-> NoError]

(* the result list evaluatePolicies returns: what its passes appended *)
RECURSIVE Results(_)
Results(passes) ==
    IF passes = <<>> THEN <<>>
    ELSE Head(passes).emitted \o Results(Tail(passes))

(* the lines evaluatePolicies writes: one for each pass of a matching policy *)
RECURSIVE Lines(_, _, _)
Lines(passes, pols, rs) ==
    IF passes = <<>> THEN <<>>
    ELSE (IF policyMatchesResource(pols[Head(passes).pj], rs[Head(passes).ri])
          THEN <<"evaluated-rules">> ELSE <<>>)
         \o Lines(Tail(passes), pols, rs)

----------------------------------------------------------------------------
(* Aggregation (Run, phase 3) *)

NewSummary(mode) ==
    [Mode |-> mode, Results |-> <<>>, Pass |-> 0, Fail |-> 0, Warn |-> 0,
     Error |-> 0, Skip |-> 0, FellBack |-> FALSE, FallbackReason |-> <<>>]

(* the switch on result.Status without its case "skip" *)
countResultNoSkip(s, result) ==
    IF result.Status = "pass" THEN [s EXCEPT !.Pass = @ + 1]
    ELSE IF result.Status = "fail" THEN [s EXCEPT !.Fail = @ + 1]
    ELSE IF result.Status = "warn" THEN [s EXCEPT !.Warn = @ + 1]
    ELSE IF result.Status = "error" THEN [s EXCEPT !.Error = @ + 1]
    ELSE s

(* the switch on result.Status *)
countResult(s, result) ==
    IF result.Status = "pass" THEN [s EXCEPT !.Pass = @ + 1]
    ELSE IF result.Status = "fail" THEN [s EXCEPT !.Fail = @ + 1]
    ELSE IF result.Status = "warn" THEN [s EXCEPT !.Warn = @ + 1]
    ELSE IF result.Status = "error" THEN [s EXCEPT !.Error = @ + 1]
    ELSE IF result.Status = "skip" THEN [s EXCEPT !.Skip = @ + 1]
    ELSE s

RECURSIVE aggregateFrom(_, _, _)
aggregateFrom(s, rs, k) ==
    IF k > Len(rs) THEN s
    ELSE aggregateFrom(countResult(s, rs[k]), rs, k + 1)

aggregate(s, rs) == aggregateFrom([s EXCEPT !.Results = rs], rs, 1)

----------------------------------------------------------------------------
(* TestRunner.Run *)

(* createBackend: the backend constructed for a mode, or an error *)
createBackend(mode) ==
    IF mode = ModeFast THEN [b |-> <<newFastBackend>>, err |-> NoError]
    ELSE IF mode = ModeAccurate THEN [b |-> <<newAccurateBackend>>, err |-> NoError]
    ELSE [b |-> <<>>, err |-> <<"unknown mode", mode>>]

(* a return of Run: s is TRUE for the pointer summary, FALSE for nil *)
Return(s, err) == [summary |-> s, err |-> err]

(* Run, lines 143-147: the deep copies of the resources handed to Setup *)
objects(rs) == [k \in 1..Len(rs) |-> rs[k]]

(* Run, lines 156 and 174: the condition of the fallback to Fast mode *)
fallbackAlways(c) == c.AutoFallback

fallbackApplies(c) == c.Mode = ModeAccurate /\ c.AutoFallback

(* Run, lines 159-160 and 177-178: the fallback and its reason recorded *)
fellBackNoReason(s, err) == [s EXCEPT !.FellBack = TRUE]

fellBack(s, err) == [s EXCEPT !.FellBack = TRUE, !.FallbackReason = err]

(* Run, line 185: the summary takes the mode of the fallback backend *)
notDemoted(s) == s

demoted(s) == [s EXCEPT !.Mode = ModeFast]

(* Run, lines 223-232: what Run returns after Teardown returned err *)
failOnTeardown(err) ==
    IF err # NoError THEN Return(FALSE, Errorf("backend teardown failed", err))
    ELSE Return(TRUE, NoError)

afterTeardown(err) == Return(TRUE, NoError)

(* whether Setup of heap[backend] fails is decided by its collaborators:   *)
(* the outcomes Setup can have on backend b with the objects objs          *)
SetupOutcomes(b, objs) ==
    IF b.kind = ModeFast
    THEN { fastSetup(b, objs, ok) : ok \in BOOLEAN }
    ELSE { accurateSetup(b, objs, f, [k \in 1..Len(objs) |-> FALSE]) :
             f \in AccurateFailures }
         \cup { accurateSetup(b, objs, "none", c) :
                  c \in [1..Len(objs) -> BOOLEAN] }

TeardownOutcomes(b) ==
    IF b.kind = ModeFast
    THEN { fastTeardown(b) }
    ELSE { accurateTeardown(b, ok) : ok \in BOOLEAN }

Init ==
    /\ config \in Configs
    /\ backend = 0
    /\ heap = <<>>
    /\ out = <<>>
    /\ pc = "start"
    /\ policies = <<>>
    /\ resources = <<>>
    /\ summary = <<>>
    /\ ret = Return(FALSE, NoError)
    /\ trace = <<>>
    /\ resolver = <<>>
    /\ server = <<>>
    /\ requests = <<>>
    /\ disco = <<>>
    /\ reply = <<>>

(* Run, lines 133-141: validation, and the summary created for the mode *)
RunValidate ==
    /\ pc = "start"
    /\ LET err == Validate(config)
       IN  IF err # NoError
           THEN /\ ret' = Return(FALSE, Errorf("invalid config", err))
                /\ pc' = "done"
                /\ UNCHANGED summary
           ELSE /\ summary' = <<NewSummary(config.Mode)>>
                /\ pc' = "convert"
                /\ UNCHANGED ret
    /\ UNCHANGED <<config, backend, heap, out, policies, resources, trace>>
    /\ UNCHANGED mockVars

(* Run, lines 143-170: the arguments are first read here (the deep copies  *)
(* of the resources), then the backend is constructed, with the fallback   *)
(* on a construction failure                                               *)
RunCreateBackend ==
    /\ pc = "convert"
    /\ \E ps \in PolicyLists, rs \in ResourceLists :
          /\ policies' = ps
          /\ resources' = rs
    /\ LET first == createBackend(config.Mode)
           second == createBackend(ModeFast)
           fell == fellBack(summary[1], first.err)
       IN  IF first.err = NoError
           THEN /\ heap' = Append(heap, first.b[1])
                /\ backend' = Len(heap) + 1
                /\ out' = Append(out, "setting-up")
                /\ pc' = "setup"
                /\ UNCHANGED <<config, summary, ret>>
           ELSE IF fallbackApplies(config)
           THEN /\ summary' = <<fell>>
                /\ config' = [config EXCEPT !.Mode = ModeFast]
                /\ out' = out \o <<"setting-up", "accurate-setup-failed", "falling-back">>
                /\ IF second.err # NoError
                   THEN /\ ret' = Return(FALSE,
                              Errorf("both accurate and fast mode setup failed", second.err))
                        /\ pc' = "done"
                        /\ UNCHANGED <<heap, backend>>
                   ELSE /\ heap' = Append(heap, second.b[1])
                        /\ backend' = Len(heap) + 1
                        /\ pc' = "setup"
                        /\ UNCHANGED ret
           ELSE /\ ret' = Return(FALSE, Errorf("backend setup failed", first.err))
                /\ out' = Append(out, "setting-up")
                /\ pc' = "done"
                /\ UNCHANGED <<config, summary, heap, backend>>
    /\ UNCHANGED trace
    /\ UNCHANGED mockVars

(* Run, lines 172-179 and 186-192: Setup of the constructed backend *)
RunSetup ==
    /\ pc = "setup"
    /\ \E o \in SetupOutcomes(heap[backend], objects(resources)) :
          /\ heap' = [heap EXCEPT ![backend] = o.b]
          /\ trace' = Append(trace, Event("Setup", backend, o.err, objects(resources), 0, 0, <<>>))
          /\ IF o.err = NoError
             THEN /\ out' = Append(out, "backend-ready")
                  /\ pc' = "evaluate"
                  /\ UNCHANGED <<summary, ret>>
             ELSE IF fallbackApplies(config)
             THEN /\ out' = out \o <<"accurate-environment-failed", "falling-back">>
                  /\ summary' = <<fellBack(summary[1], o.err)>>
                  /\ pc' = "fallback"
                  /\ UNCHANGED ret
             ELSE /\ ret' = Return(FALSE, Errorf("backend setup failed", o.err))
                  /\ pc' = "done"
                  /\ UNCHANGED <<summary, out>>
    /\ UNCHANGED <<config, backend, policies, resources>>
    /\ UNCHANGED mockVars

(* Run, lines 180-185 and 191-192: a new fast backend is set up in place   *)
(* of the accurate one                                                     *)
RunFallback ==
    /\ pc = "fallback"
    /\ \E o \in SetupOutcomes(newFastBackend, objects(resources)) :
          /\ heap' = Append(heap, o.b)
          /\ trace' = Append(trace,
                Event("Setup", Len(heap) + 1, o.err, objects(resources), 0, 0, <<>>))
          /\ IF o.err # NoError
             THEN /\ ret' = Return(FALSE, Errorf("fallback fast mode setup failed", o.err))
                  /\ pc' = "done"
                  /\ UNCHANGED <<backend, summary, out>>
             ELSE /\ backend' = Len(heap) + 1
                  /\ summary' = <<demoted(summary[1])>>
                  /\ out' = Append(out, "backend-ready")
                  /\ pc' = "evaluate"
                  /\ UNCHANGED ret
    /\ UNCHANGED <<config, policies, resources>>
    /\ UNCHANGED mockVars

(* Run, lines 194-220: the evaluation of every pair, and the results      *)
(* stored in the summary and counted                                       *)
RunEvaluate ==
    /\ pc = "evaluate"
    /\ LET e == evaluatePolicies(heap[backend], policies, resources, backend)
       IN  IF e.err # NoError
           THEN /\ ret' = Return(FALSE, Errorf("policy evaluation failed", e.err))
                /\ pc' = "done"
                /\ out' = Append(out, "evaluating")
                /\ UNCHANGED <<summary, trace>>
           ELSE /\ summary' = <<aggregate(summary[1], Results(e.passes))>>
                /\ trace' = trace \o e.passes
                /\ out' = out \o <<"evaluating">> \o Lines(e.passes, policies, resources)
                /\ pc' = "teardown"
                /\ UNCHANGED ret
    /\ UNCHANGED <<config, backend, heap, policies, resources>>
    /\ UNCHANGED mockVars

(* Run, lines 222-232: Teardown, whose error is only written out, and the  *)
(* return of the summary                                                   *)
RunTeardown ==
    /\ pc = "teardown"
    /\ \E o \in TeardownOutcomes(heap[backend]) :
          /\ heap' = [heap EXCEPT ![backend] = o.b]
          /\ trace' = Append(trace,
                Event("Teardown", backend, o.err, <<>>, 0, 0, <<>>))
          /\ out' = IF o.err # NoError
                    THEN out \o <<"teardown-warning", "summary">>
                    ELSE Append(out, "summary")
          /\ ret' = afterTeardown(o.err)
    /\ pc' = "done"
    /\ UNCHANGED <<config, backend, policies, resources, summary>>
    /\ UNCHANGED mockVars

Next ==
    \/ RunValidate
    \/ RunCreateBackend
    \/ RunSetup
    \/ RunFallback
    \/ RunEvaluate
    \/ RunTeardown

Spec == Init /\ [][Next]_vars

----------------------------------------------------------------------------
(* Properties of Run *)

Returned == pc = "done"

ReturnedSummary == pc = "done" /\ ret.summary

(* the positions of the history that hold a call of op *)
Calls(op) == { k \in 1..Len(trace) : trace[k].op = op }

(* the results of the passes recorded in the history, in order *)
Emitted == Results(SelectSeq(trace, LAMBDA e : e.op = "Eval"))

(* the summary holds the results of every (resource, policy) pair *)
Complete ==
    /\ \A i \in 1..Len(resources), j \in 1..Len(policies) :
          \E k \in Calls("Eval") :
             trace[k].ri = i /\ trace[k].pj = j /\ trace[k].emitted # <<>>
    /\ Cardinality(Calls("Eval")) = Len(resources) * Len(policies)
    /\ summary[1].Results = Emitted

(* the first Setup of the run was that of the accurate backend, it failed, *)
(* and the fallback was enabled                                            *)
AccurateSetupFailed ==
    /\ config.Mode = ModeAccurate
    /\ config.AutoFallback
    /\ Len(trace) >= 1
    /\ trace[1].op = "Setup"
    /\ Mode(heap[trace[1].b]) = ModeAccurate
    /\ trace[1].err # NoError

C2_FallbackOnlyWhenEnabled ==
    /\ Cardinality(Calls("Setup")) <= 2
    /\ Len(heap) <= 2
    /\ Cardinality(Calls("Setup")) = 2 =>
          /\ AccurateSetupFailed
          /\ trace[2].op = "Setup"
    /\ (Returned /\ Len(trace) >= 1 /\ trace[1].err # NoError
          /\ ~(config.Mode = ModeAccurate /\ config.AutoFallback)) =>
          /\ ret.err # NoError
          /\ ~ret.summary
          /\ Len(trace) = 1
          /\ Len(heap) = 1
    /\ (Returned /\ Len(trace) >= 2 /\ trace[2].op = "Setup"
          /\ trace[2].err # NoError) =>
          /\ ret.err # NoError
          /\ ~ret.summary
          /\ Len(trace) = 2
          /\ Len(heap) = 2

C2_Witness ==
    /\ Returned
    /\ AccurateSetupFailed
    /\ Len(trace) = 2
    /\ trace[2].op = "Setup"
    /\ trace[2].err # NoError
    /\ ret.err # NoError

(* C3: Run returns either its summary with a nil error or no summary with  *)
(* a non-nil error, and a summary it returns holds the results of every    *)
(* (resource, policy) pair.                                                *)
C3_SummaryOrError ==
    Returned =>
        \/ ret.summary /\ ret.err = NoError /\ Complete
        \/ ~ret.summary /\ ret.err # NoError

C3_Witness ==
    /\ ReturnedSummary
    /\ Len(resources) = MaxResources
    /\ Len(policies) = MaxPolicies
    /\ Len(summary[1].Results) > Len(resources) * Len(policies)

(* the entries of the results rs that have the status st *)
WithStatus(rs, st) == { k \in 1..Len(rs) : rs[k].Status = st }

(* C4: in a summary returned by Run each of Pass, Fail, Warn, Error and    *)
(* Skip is the number of the entries of Results with that status, and      *)
(* their sum is the length of Results.                                     *)
C4_CountsAreHistogram ==
    ReturnedSummary =>
        LET s == summary[1]
        IN  /\ s.Pass = Cardinality(WithStatus(s.Results, "pass"))
            /\ s.Fail = Cardinality(WithStatus(s.Results, "fail"))
            /\ s.Warn = Cardinality(WithStatus(s.Results, "warn"))
            /\ s.Error = Cardinality(WithStatus(s.Results, "error"))
            /\ s.Skip = Cardinality(WithStatus(s.Results, "skip"))
            /\ s.Pass + s.Fail + s.Warn + s.Error + s.Skip = Len(s.Results)

C4_Witness ==
    /\ ReturnedSummary
    /\ summary[1].Pass >= 1
    /\ summary[1].Skip >= 2
    /\ Len(summary[1].Results) = summary[1].Pass + summary[1].Skip

(* C5: in a summary returned by Run, Mode is the Mode() of the backend     *)
(* that evaluated the pairs and the Mode of every result, and it is Fast   *)
(* when FellBack is set.                                                   *)
C5_SummaryModeIsBackendMode ==
    ReturnedSummary =>
        /\ \A k \in Calls("Eval") :
              /\ trace[k].b = backend
              /\ summary[1].Mode = Mode(heap[trace[k].b])
        /\ summary[1].Mode = Mode(heap[backend])
        /\ \A k \in 1..Len(summary[1].Results) :
              summary[1].Results[k].Mode = summary[1].Mode
        /\ summary[1].FellBack => summary[1].Mode = ModeFast

C5_Witness ==
    /\ ReturnedSummary
    /\ summary[1].FellBack
    /\ summary[1].Mode = ModeFast
    /\ config.Mode = ModeAccurate
    /\ Len(summary[1].Results) >= 2
    /\ summary[1].Results[2].Mode = ModeFast

(* Teardown of the backend returned an error *)
TeardownFailed == \E k \in Calls("Teardown") : trace[k].err # NoError

(* C6: when Teardown returns an error after the evaluation, Run returns    *)
(* the summary with the results of every pair and a nil error, and writes  *)
(* the failure to its output as a warning.                                 *)
C6_TeardownErrorIsWarning ==
    (Returned /\ TeardownFailed) =>
        /\ ret = Return(TRUE, NoError)
        /\ Complete
        /\ \E k \in 1..Len(out) : out[k] = "teardown-warning"

C6_Witness ==
    /\ Returned
    /\ TeardownFailed
    /\ ret.summary
    /\ ret.err = NoError
    /\ Len(summary[1].Results) >= 2

(* C7: a pass of the evaluation comes after a Setup of its backend that    *)
(* returned nil and uses the backend of the runner, nothing follows a      *)
(* Teardown, a run that returns a summary has called Teardown once, on     *)
(* the backend that evaluated, and at no time are two backends ready.      *)
C7_PhasesOrdered ==
    /\ Cardinality({ k \in 1..Len(heap) : IsReady(heap[k]) }) <= 1
    /\ \A k \in Calls("Eval") :
          /\ trace[k].b = backend
          /\ \E s \in Calls("Setup") :
                s < k /\ trace[s].b = trace[k].b /\ trace[s].err = NoError
    /\ \A k \in Calls("Teardown") : k = Len(trace)
    /\ ReturnedSummary =>
          /\ Cardinality(Calls("Teardown")) = 1
          /\ trace[Len(trace)].op = "Teardown"
          /\ trace[Len(trace)].b = backend
          /\ \E s \in Calls("Setup") :
                trace[s].b = backend /\ trace[s].err = NoError

C7_Witness ==
    /\ ReturnedSummary
    /\ Len(heap) = 2
    /\ Cardinality(Calls("Setup")) = 2
    /\ Cardinality(Calls("Eval")) >= 2
    /\ Cardinality(Calls("Teardown")) = 1

(* a configuration with a mode that is neither fast nor accurate, without  *)
(* a policy path or without a resource path                                *)
InvalidConfig(c) ==
    \/ c.Mode \notin {ModeFast, ModeAccurate}
    \/ c.PolicyPaths = <<>>
    \/ c.ResourcePaths = <<>>

(* C8: with a configuration whose mode is neither fast nor accurate, or    *)
(* that has no policy path or no resource path, Run returns an error and   *)
(* no summary, and constructs and calls no backend.                        *)
C8_InvalidConfigFailsFirst ==
    InvalidConfig(config) =>
        /\ heap = <<>>
        /\ backend = 0
        /\ trace = <<>>
        /\ pc \in {"start", "done"}
        /\ Returned => (ret.err # NoError /\ ~ret.summary)

C8_Witness ==
    /\ Returned
    /\ config.Mode = ModeAccurate
    /\ config.PolicyPaths # <<>>
    /\ config.ResourcePaths = <<>>
    /\ ret.err = <<"invalid config", "at least one resource path is required">>
    /\ heap = <<>>

(* some rule of the policy pol lists the kind of the resource res *)
ListsKind(pol, res) ==
    \E r \in 1..Len(pol.Rules) :
       \E q \in 1..Len(pol.Rules[r].Kinds) : pol.Rules[r].Kinds[q] = res.Kind

(* the rule has a validate, mutate, generate or image verification part *)
Actionable(rule) ==
    rule.Validate \/ rule.Mutate \/ rule.Generate \/ rule.VerifyImages

(* C9: for a (resource, policy) pair in which no rule of the policy lists  *)
(* the kind of the resource Run emits one result only: status skip, empty  *)
(* rule name, message "policy does not match resource"; and the results    *)
(* of the summary Run returns are those emitted for the pairs, in order.   *)
C9_NoMatchIsOneSkip ==
    /\ \A k \in Calls("Eval") :
          LET pol == policies[trace[k].pj]
              res == resources[trace[k].ri]
              got == trace[k].emitted
          IN  ~ListsKind(pol, res) =>
                 /\ Len(got) = 1
                 /\ got[1].Status = "skip"
                 /\ got[1].RuleName = ""
                 /\ got[1].Message = <<"policy does not match resource">>
                 /\ got[1].PolicyName = pol.Name
                 /\ got[1].ResourceName = res.Name
                 /\ got[1].ResourceNamespace = res.Namespace
                 /\ got[1].ResourceKind = res.Kind
    /\ ReturnedSummary => summary[1].Results = Emitted

C9_Witness ==
    /\ ReturnedSummary
    /\ \E k \in Calls("Eval") :
          /\ Len(policies[trace[k].pj].Rules) >= 1
          /\ ~ListsKind(policies[trace[k].pj], resources[trace[k].ri])
          /\ Len(trace[k].emitted) = 1
    /\ \E k \in Calls("Eval") :
          /\ Len(policies[trace[k].pj].Rules) = 0
          /\ trace[k].emitted[1].Status = "skip"

(* C10: for a (resource, policy) pair in which some rule of the policy     *)
(* lists the kind of the resource Run emits one result for each rule of    *)
(* the policy, in the order of the rules, whether or not the rule itself   *)
(* lists the kind: status pass when the rule has a validate, mutate,       *)
(* generate or image verification part, and otherwise status skip with     *)
(* the message "no actionable rule type"; and the results of the summary   *)
(* Run returns hold them in the order of the pairs.                        *)
C10_MatchIsOneResultPerRule ==
    /\ \A k \in Calls("Eval") :
          LET pol == policies[trace[k].pj]
              res == resources[trace[k].ri]
              got == trace[k].emitted
          IN  ListsKind(pol, res) =>
                 /\ Len(got) = Len(pol.Rules)
                 /\ \A r \in 1..Len(pol.Rules) :
                       /\ got[r].RuleName = pol.Rules[r].Name
                       /\ got[r].PolicyName = pol.Name
                       /\ got[r].ResourceName = res.Name
                       /\ got[r].ResourceKind = res.Kind
                       /\ Actionable(pol.Rules[r]) => got[r].Status = "pass"
                       /\ ~Actionable(pol.Rules[r]) =>
                             /\ got[r].Status = "skip"
                             /\ got[r].Message = <<"no actionable rule type">>
    /\ ReturnedSummary =>
          LET got == Emitted
          IN  /\ Len(summary[1].Results) = Len(got)
              /\ \A n \in 1..Len(got) : summary[1].Results[n] = got[n]

C10_Witness ==
    /\ ReturnedSummary
    /\ \E k \in Calls("Eval") :
          LET pol == policies[trace[k].pj]
              res == resources[trace[k].ri]
          IN  /\ Len(pol.Rules) = 2
              /\ ListsKind(pol, res)
              /\ \A q \in 1..Len(pol.Rules[1].Kinds) : pol.Rules[1].Kinds[q] # res.Kind
              /\ pol.Rules[1].VerifyImages
              /\ ~Actionable(pol.Rules[2])
              /\ trace[k].emitted[1].Status = "pass"
              /\ trace[k].emitted[2].Status = "skip"

(* what identifies a result: its resource, its policy and its rule *)
ResultKey(r) == <<r.ResourceKind, r.ResourceNamespace, r.ResourceName,
                  r.PolicyName, r.RuleName>>

(* the keys of the results expected for resources[i] and policies[j] *)
PairKeys(i, j) ==
    LET pol == policies[j]
        res == resources[i]
    IN  IF ListsKind(pol, res)
        THEN [r \in 1..Len(pol.Rules) |->
                 <<res.Kind, res.Namespace, res.Name, pol.Name, pol.Rules[r].Name>>]
        ELSE << <<res.Kind, res.Namespace, res.Name, pol.Name, "">> >>

(* the keys expected from the pair (i, j) on, resources first *)
RECURSIVE KeysFrom(_, _)
KeysFrom(i, j) ==
    IF i > Len(resources) THEN <<>>
    ELSE IF j > Len(policies) THEN KeysFrom(i + 1, 1)
    ELSE PairKeys(i, j) \o KeysFrom(i, j + 1)

(* C11: the Results of a summary Run returns are in the order of the       *)
(* pairs: the resources in input order, for each resource the policies in  *)
(* input order, for each policy its rules in order, one result for a       *)
(* policy that does not match and one for each rule of one that does.      *)
C11_ResultsInPairOrder ==
    ReturnedSummary =>
        LET rs == summary[1].Results
        IN  [k \in 1..Len(rs) |-> ResultKey(rs[k])] = KeysFrom(1, 1)

C11_Witness ==
    /\ ReturnedSummary
    /\ Len(resources) = 2
    /\ resources[1] # resources[2]
    /\ Len(policies) = 2
    /\ Len(policies[1].Rules) = 1
    /\ Len(policies[2].Rules) = 1
    /\ Len(summary[1].Results) = 4
    /\ summary[1].Pass >= 2
    /\ summary[1].Skip >= 1

----------------------------------------------------------------------------
(* MockResolver (package mocks) *)

(* A string that is matched or rewritten is the sequence of its            *)
(* characters; a Go map is a function on the set of its keys; a value or   *)
(* response that may be nil is a sequence of length 0 or 1.                *)

(* the registrations of one resolver, those of its configuration included *)
MaxMocks == 2

(* m[k] = v *)
MapPut(m, k, v) == [x \in DOMAIN m \cup {k} |-> IF x = k THEN v ELSE m[x]]

(* NewMockResolver, the two loops that index the mocks of the              *)
(* configuration: the map m after the entries of list from k on            *)
RECURSIVE indexMocks(_, _, _)
indexMocks(m, list, k) ==
    IF k > Len(list) THEN m
    ELSE indexMocks(MapPut(m, list[k].key, list[k].value), list, k + 1)

MockConfig(apiCallMocks, globalContextMocks) ==
    [APICallMocks |-> apiCallMocks, GlobalContextMocks |-> globalContextMocks]

(* NewMockResolver: cfg is nil (<<>>) or <<a MockConfig>>, without HTTP *)
(* call mocks, so that no server is started                                *)
NewMockResolver(cfg) ==
    LET c == IF cfg = <<>> THEN MockConfig(<<>>, <<>>) ELSE cfg[1]
    IN  [apiCalls |-> indexMocks(<<>>, c.APICallMocks, 1),
         globalCtx |-> indexMocks(<<>>, c.GlobalContextMocks, 1)]

(* strings.ReplaceAll(s, old, new), old not empty *)
RECURSIVE ReplaceAll(_, _, _)
ReplaceAll(s, old, new) ==
    IF Len(s) < Len(old) THEN s
    ELSE IF SubSeq(s, 1, Len(old)) = old
    THEN new \o ReplaceAll(SubSeq(s, Len(old) + 1, Len(s)), old, new)
    ELSE <<Head(s)>> \o ReplaceAll(Tail(s), old, new)

(* substituteVariables; values: its map vars; keys: the keys of the map in  *)
(* the order in which the range loop visits them, from position k on       *)
RECURSIVE substituteVariables(_, _, _, _)
substituteVariables(template, values, keys, k) ==
    IF k > Len(keys) THEN template
    ELSE substituteVariables(
             ReplaceAll(template, <<"{", "{">> \o keys[k] \o <<"}", "}">>,
                        values[keys[k]]),
             values, keys, k + 1)

(* the characters regexp.QuoteMeta escapes *)
MetaCharacters ==
    {"\\", ".", "+", "*", "?", "(", ")", "|", "[", "]", "{", "}", "^", "$"}

RECURSIVE QuoteMeta(_)
QuoteMeta(s) ==
    IF s = <<>> THEN <<>>
    ELSE (IF Head(s) \in MetaCharacters THEN <<"\\", Head(s)>> ELSE <<Head(s)>>)
         \o QuoteMeta(Tail(s))

(* where a match of \\\{\\\{[^}]+\\\}\\\} that starts at position p of the *)
(* quoted pattern q ends, 0 when there is none: [^}]+ takes what precedes  *)
(* the backslash of the first closing brace                                *)
placeholderEnd(q, p) ==
    IF p + 3 > Len(q) \/ SubSeq(q, p, p + 3) # <<"\\", "{", "\\", "{">>
    THEN 0
    ELSE LET closing == { k \in (p + 4)..Len(q) : q[k] = "}" }
         IN  IF closing = {} THEN 0
             ELSE LET c == CHOOSE k \in closing : \A n \in closing : k <= n
                  IN  IF /\ c - 2 >= p + 4
                         /\ q[c - 1] = "\\"
                         /\ c + 2 <= Len(q)
                         /\ q[c + 1] = "\\"
                         /\ q[c + 2] = "}"
                      THEN c + 2
                      ELSE 0

(* the wildcard that takes the place of a placeholder *)
Wildcard == "[^/]+"

(* ReplaceAllString(q, "[^/]+") of that expression, from position p on *)
RECURSIVE replacePlaceholders(_, _)
replacePlaceholders(q, p) ==
    IF p > Len(q) THEN <<>>
    ELSE IF placeholderEnd(q, p) > 0
    THEN <<Wildcard>> \o replacePlaceholders(q, placeholderEnd(q, p) + 1)
    ELSE <<q[p]>> \o replacePlaceholders(q, p + 1)

(* MatchString with a wildcard that also takes slashes *)
RECURSIVE MatchStringAcrossSlash(_, _)
MatchStringAcrossSlash(regex, url) ==
    IF regex = <<>> THEN url = <<>>
    ELSE IF Head(regex) = Wildcard
    THEN \E n \in 1..Len(url) :
            MatchStringAcrossSlash(Tail(regex), SubSeq(url, n + 1, Len(url)))
    ELSE IF Head(regex) = "\\"
    THEN /\ Len(regex) >= 2
         /\ url # <<>>
         /\ url[1] = regex[2]
         /\ MatchStringAcrossSlash(SubSeq(regex, 3, Len(regex)), Tail(url))
    ELSE /\ url # <<>>
         /\ url[1] = Head(regex)
         /\ MatchStringAcrossSlash(Tail(regex), Tail(url))

(* the expression regex, anchored at both ends, matches url: an escaped    *)
(* character and a plain one match themselves, the wildcard one or more    *)
(* characters other than the slash                                         *)
RECURSIVE MatchString(_, _)
MatchString(regex, url) ==
    IF regex = <<>> THEN url = <<>>
    ELSE IF Head(regex) = Wildcard
    THEN \E n \in 1..Len(url) :
            /\ \A k \in 1..n : url[k] # "/"
            /\ MatchString(Tail(regex), SubSeq(url, n + 1, Len(url)))
    ELSE IF Head(regex) = "\\"
    THEN /\ Len(regex) >= 2
         /\ url # <<>>
         /\ url[1] = regex[2]
         /\ MatchString(SubSeq(regex, 3, Len(regex)), Tail(url))
    ELSE /\ url # <<>>
         /\ url[1] = Head(regex)
         /\ MatchString(Tail(regex), Tail(url))

matchesPattern(pattern, url) ==
    MatchString(replacePlaceholders(QuoteMeta(pattern), 1), url)

(* a result of a resolver call: value is nil (<<>>) or <<the value>> *)
Resolved(value, err) == [value |-> value, err |-> err]

(* ResolveAPICall after the substitution.  The loop over the map apiCalls  *)
(* visits the patterns in an order the runtime chooses, and returns at the *)
(* first that matches: the results the call can have                       *)
ResolveAPICall(r, resolvedPath) ==
    IF resolvedPath \in DOMAIN r.apiCalls
    THEN { Resolved(<<r.apiCalls[resolvedPath]>>, NoError) }
    ELSE IF \A p \in DOMAIN r.apiCalls : ~matchesPattern(p, resolvedPath)
    THEN { Resolved(<<>>, <<"no mock found for API call", resolvedPath>>) }
    ELSE { Resolved(<<r.apiCalls[p]>>, NoError) :
             p \in { q \in DOMAIN r.apiCalls : matchesPattern(q, resolvedPath) } }

(* ResolveGlobalContext answering a name it does not know with no value   *)
(* and no error                                                            *)
ResolveGlobalContextZero(r, name) ==
    IF name \in DOMAIN r.globalCtx
    THEN Resolved(<<r.globalCtx[name]>>, NoError)
    ELSE Resolved(<<>>, NoError)

ResolveGlobalContext(r, name) ==
    IF name \in DOMAIN r.globalCtx
    THEN Resolved(<<r.globalCtx[name]>>, NoError)
    ELSE Resolved(<<>>, <<"no mock found for GlobalContextEntry", name>>)

HasGlobalContext(r, name) == name \in DOMAIN r.globalCtx

AddAPICallMock(r, urlPath, response) ==
    [r EXCEPT !.apiCalls = MapPut(@, urlPath, response)]

(* AddGlobalContextMock keeping the value of a name it already has *)
AddGlobalContextMockKeepFirst(r, name, value) ==
    IF name \in DOMAIN r.globalCtx THEN r
    ELSE [r EXCEPT !.globalCtx = MapPut(@, name, value)]

AddGlobalContextMock(r, name, value) ==
    [r EXCEPT !.globalCtx = MapPut(@, name, value)]

(* The inputs of the resolver *)

URLPatterns ==
    { <<"/", "a">>,
      <<"/", "{", "{", "n", "}", "}">>,
      <<"/", "{", "{", "m", "}", "}">>,
      <<"/", "{", "{", "n", "}", "}", "/", "b">>,
      <<"/", "a", ".", "b">>,
      <<"/", "{", "{", "}", "}">> }

Responses == {"r1", "r2"}

ContextNames == {"team", "region"}

ContextValues == {"v1", "v2"}

(* a mock of a configuration list, and a registration in the history *)
Mock(key, value) == [key |-> key, value |-> value]

Registration(op, key, value) == [op |-> op, key |-> key, value |-> value]

APICallMocks == { Mock(p, r) : p \in URLPatterns, r \in Responses }

GlobalContextMocks == { Mock(n, v) : n \in ContextNames, v \in ContextValues }

MockConfigs ==
    { MockConfig(a, g) :
        <<a, g>> \in { ag \in SeqsUpTo(APICallMocks, MaxMocks)
                               \X SeqsUpTo(GlobalContextMocks, MaxMocks) :
                         Len(ag[1]) + Len(ag[2]) <= MaxMocks } }

(* the urlPath arguments of ResolveAPICall *)
URLPaths ==
    URLPatterns \cup
    { <<"/", "b">>, <<"/", "a", "/", "b">>, <<"/", "a", "x", "b">>,
      <<"/", "x", "/", "{", "{", "n", "}", "}">> }

(* the vars arguments of ResolveAPICall: nil, one variable, a variable     *)
(* with a slash in its value, and a variable whose value names another     *)
VarMaps ==
    { <<>>,
      MapPut(<<>>, <<"n">>, <<"b">>),
      MapPut(<<>>, <<"n">>, <<"a", "/", "b">>),
      MapPut(MapPut(<<>>, <<"n">>, <<"{", "{", "m", "}", "}">>), <<"m">>, <<"b">>) }

(* the orders in which a range loop can visit the keys of the map m *)
KeyOrders(m) ==
    { o \in [1..Cardinality(DOMAIN m) -> DOMAIN m] :
        \A a, b \in DOMAIN o : o[a] = o[b] => a = b }

DefaultConfig ==
    [Mode |-> ModeFast, AutoFallback |-> TRUE, PolicyPaths |-> <<>>,
     ResourcePaths |-> <<>>]

(* the variables of a runner that is constructed and not run *)
idleVars == <<config, backend, heap, out, pc, policies, resources, summary, ret>>

IdleRunner ==
    /\ config = DefaultConfig
    /\ backend = 0
    /\ heap = <<>>
    /\ out = <<>>
    /\ pc = "start"
    /\ policies = <<>>
    /\ resources = <<>>
    /\ summary = <<>>
    /\ ret = Return(FALSE, NoError)

(* the registrations NewMockResolver makes for a configuration, in order *)
Registrations(cfg) ==
    IF cfg = <<>> THEN <<>>
    ELSE [k \in 1..Len(cfg[1].APICallMocks) |->
             Registration("AddAPICallMock", cfg[1].APICallMocks[k].key,
                          cfg[1].APICallMocks[k].value)]
         \o [k \in 1..Len(cfg[1].GlobalContextMocks) |->
                Registration("AddGlobalContextMock",
                             cfg[1].GlobalContextMocks[k].key,
                             cfg[1].GlobalContextMocks[k].value)]

(* a call on the resolver and its result.  A call that leaves the         *)
(* resolver as it is is made when no result is held: reply is emptied by   *)
(* the calls that change the resolver                                      *)
ResolverCall(op, urlPath, variables, key, result) ==
    [op |-> op, urlPath |-> urlPath, vars |-> variables, key |-> key,
     result |-> result]

InitResolver ==
    /\ IdleRunner
    /\ trace = <<>>
    /\ resolver = <<>>
    /\ server = <<>>
    /\ requests = <<>>
    /\ disco = <<>>
    /\ reply = <<>>

CallNewMockResolver ==
    /\ resolver = <<>>
    /\ \E cfg \in {<<>>} \cup { <<c>> : c \in MockConfigs } :
          /\ resolver' = <<NewMockResolver(cfg)>>
          /\ trace' = Registrations(cfg)
    /\ reply' = <<>>
    /\ UNCHANGED <<idleVars, server, requests, disco>>

CallAddAPICallMock ==
    /\ resolver # <<>>
    /\ Len(trace) < MaxMocks
    /\ \E m \in APICallMocks :
          /\ resolver' = <<AddAPICallMock(resolver[1], m.key, m.value)>>
          /\ trace' = Append(trace, Registration("AddAPICallMock", m.key, m.value))
    /\ reply' = <<>>
    /\ UNCHANGED <<idleVars, server, requests, disco>>

CallAddGlobalContextMock ==
    /\ resolver # <<>>
    /\ Len(trace) < MaxMocks
    /\ \E m \in GlobalContextMocks :
          /\ resolver' = <<AddGlobalContextMock(resolver[1], m.key, m.value)>>
          /\ trace' = Append(trace,
                Registration("AddGlobalContextMock", m.key, m.value))
    /\ reply' = <<>>
    /\ UNCHANGED <<idleVars, server, requests, disco>>

CallResolveAPICall ==
    /\ resolver # <<>>
    /\ reply = <<>>
    /\ \E urlPath \in URLPaths, variables \in VarMaps :
          \E keys \in KeyOrders(variables) :
             LET resolvedPath == substituteVariables(urlPath, variables, keys, 1)
             IN  \E result \in ResolveAPICall(resolver[1], resolvedPath) :
                    reply' = <<ResolverCall("ResolveAPICall", urlPath, variables,
                                            resolvedPath, result)>>
    /\ UNCHANGED <<idleVars, trace, resolver, server, requests, disco>>

CallResolveGlobalContext ==
    /\ resolver # <<>>
    /\ reply = <<>>
    /\ \E name \in ContextNames \cup {"zone"} :
          reply' = <<ResolverCall("ResolveGlobalContext", <<>>, <<>>, name,
                                  ResolveGlobalContext(resolver[1], name))>>
    /\ UNCHANGED <<idleVars, trace, resolver, server, requests, disco>>

CallHasGlobalContext ==
    /\ resolver # <<>>
    /\ reply = <<>>
    /\ \E name \in ContextNames \cup {"zone"} :
          reply' = <<ResolverCall("HasGlobalContext", <<>>, <<>>, name,
                                  HasGlobalContext(resolver[1], name))>>
    /\ UNCHANGED <<idleVars, trace, resolver, server, requests, disco>>

NextResolver ==
    \/ CallNewMockResolver
    \/ CallAddAPICallMock
    \/ CallAddGlobalContextMock
    \/ CallResolveAPICall
    \/ CallResolveGlobalContext
    \/ CallHasGlobalContext

SpecResolver == InitResolver /\ [][NextResolver]_vars

----------------------------------------------------------------------------
(* Properties of the resolver *)

(* the positions of the history that register key with op *)
RegistrationsOf(op, key) ==
    { k \in 1..Len(trace) : trace[k].op = op /\ trace[k].key = key }

IsRegistered(op, key) == RegistrationsOf(op, key) # {}

(* the value of the most recent registration of key with op *)
LastRegistered(op, key) ==
    trace[CHOOSE k \in RegistrationsOf(op, key) :
             \A n \in RegistrationsOf(op, key) : n <= k].value

(* the length of the placeholder {{...}} the pattern pat starts with: two  *)
(* opening braces, one or more characters other than a closing brace, two  *)
(* closing braces; 0 when it does not start with one                       *)
PlaceholderLength(pat) ==
    LET ends == { e \in 5..Len(pat) :
                    /\ pat[e - 1] = "}"
                    /\ pat[e] = "}"
                    /\ \A k \in 3..(e - 2) : pat[k] # "}" }
    IN  IF Len(pat) >= 5 /\ pat[1] = "{" /\ pat[2] = "{" /\ ends # {}
        THEN CHOOSE e \in ends : TRUE
        ELSE 0

(* url is the pattern pat with one or more characters other than the slash *)
(* in the place of each placeholder                                        *)
RECURSIVE Fits(_, _)
Fits(pat, url) ==
    IF pat = <<>> THEN url = <<>>
    ELSE IF PlaceholderLength(pat) > 0
    THEN \E n \in 1..Len(url) :
            /\ \A k \in 1..n : url[k] # "/"
            /\ Fits(SubSeq(pat, PlaceholderLength(pat) + 1, Len(pat)),
                    SubSeq(url, n + 1, Len(url)))
    ELSE /\ url # <<>>
         /\ Head(url) = Head(pat)
         /\ Fits(Tail(pat), Tail(url))

(* the registered patterns that the path fits *)
FittingPatterns(path) ==
    { p \in URLPatterns : IsRegistered("AddAPICallMock", p) /\ Fits(p, path) }

(* the last call was op, with its result held *)
Replied(op) == Len(reply) = 1 /\ reply[1].op = op

(* C12: ResolveAPICall succeeds exactly when the path it gets by the       *)
(* substitution is a registered pattern or fits a registered pattern, a    *)
(* placeholder standing for one or more characters other than the slash    *)
(* and every other character for itself; when the path is a registered     *)
(* pattern it returns the response registered for it; without variables    *)
(* the path is the urlPath argument.                                       *)
C12_ResolveAPICallMatches ==
    Replied("ResolveAPICall") =>
        LET c == reply[1]
        IN  /\ (c.result.err = NoError) <=>
                  (IsRegistered("AddAPICallMock", c.key) \/ FittingPatterns(c.key) # {})
            /\ IsRegistered("AddAPICallMock", c.key) =>
                  c.result.value = <<LastRegistered("AddAPICallMock", c.key)>>
            /\ c.result.err = NoError => Len(c.result.value) = 1
            /\ c.vars = <<>> => c.key = c.urlPath

C12_Witness ==
    /\ Replied("ResolveAPICall")
    /\ reply[1].vars # <<>>
    /\ reply[1].key # reply[1].urlPath
    /\ ~IsRegistered("AddAPICallMock", reply[1].key)
    /\ IsRegistered("AddAPICallMock", reply[1].urlPath)
    /\ FittingPatterns(reply[1].key) # {}
    /\ reply[1].result.err = NoError

(* the registered pattern that was registered before the others of ps *)
FirstRegistered(ps) ==
    CHOOSE p \in ps :
       \A q \in ps :
          \E k \in RegistrationsOf("AddAPICallMock", p) :
             \A n \in RegistrationsOf("AddAPICallMock", q) : k <= n

(* C13: when the path is no registered pattern and fits two or more        *)
(* registered patterns, ResolveAPICall returns the response of the one     *)
(* that was registered first.                                              *)
C13_FirstRegisteredWins ==
    (/\ Replied("ResolveAPICall")
     /\ ~IsRegistered("AddAPICallMock", reply[1].key)
     /\ Cardinality(FittingPatterns(reply[1].key)) >= 2) =>
        reply[1].result.value =
           <<LastRegistered("AddAPICallMock", FirstRegistered(FittingPatterns(reply[1].key)))>>

(* C14: ResolveAPICall for a path that is no registered pattern and fits   *)
(* none, and ResolveGlobalContext for a name that is not registered, on a  *)
(* resolver built from any configuration, nil and empty included, return a *)
(* non-nil error and a nil value.                                          *)
C14_NotFoundIsError ==
    /\ (/\ Replied("ResolveAPICall")
        /\ ~IsRegistered("AddAPICallMock", reply[1].key)
        /\ FittingPatterns(reply[1].key) = {}) =>
           /\ reply[1].result.err # NoError
           /\ reply[1].result.value = <<>>
    /\ (/\ Replied("ResolveGlobalContext")
        /\ ~IsRegistered("AddGlobalContextMock", reply[1].key)) =>
           /\ reply[1].result.err # NoError
           /\ reply[1].result.value = <<>>

C14_Witness ==
    /\ Replied("ResolveGlobalContext")
    /\ trace # <<>>
    /\ \A k \in 1..Len(trace) : trace[k].op = "AddGlobalContextMock"
    /\ ~IsRegistered("AddGlobalContextMock", reply[1].key)
    /\ reply[1].result.err # NoError

(* C15: after the construction and any registrations, HasGlobalContext is  *)
(* true exactly for the names registered so far, ResolveGlobalContext      *)
(* returns the value of the most recent registration of a name, and        *)
(* ResolveAPICall of a registered pattern the response of its most recent  *)
(* registration; so a registration changes the result of no other name.    *)
C15_LastRegistrationWins ==
    resolver # <<>> =>
        /\ \A n \in ContextNames \cup {"zone"} :
              /\ HasGlobalContext(resolver[1], n) <=>
                    IsRegistered("AddGlobalContextMock", n)
              /\ IsRegistered("AddGlobalContextMock", n) =>
                    ResolveGlobalContext(resolver[1], n) =
                       Resolved(<<LastRegistered("AddGlobalContextMock", n)>>, NoError)
        /\ \A p \in URLPatterns :
              IsRegistered("AddAPICallMock", p) =>
                 ResolveAPICall(resolver[1], p) =
                    { Resolved(<<LastRegistered("AddAPICallMock", p)>>, NoError) }
        /\ Replied("HasGlobalContext") =>
              (reply[1].result <=> IsRegistered("AddGlobalContextMock", reply[1].key))
        /\ (Replied("ResolveGlobalContext")
              /\ IsRegistered("AddGlobalContextMock", reply[1].key)) =>
              reply[1].result =
                 Resolved(<<LastRegistered("AddGlobalContextMock", reply[1].key)>>, NoError)

C15_Witness ==
    /\ Replied("ResolveGlobalContext")
    /\ Len(trace) = 2
    /\ trace[1].op = "AddGlobalContextMock"
    /\ trace[2].op = "AddGlobalContextMock"
    /\ trace[1].key = trace[2].key
    /\ trace[1].value # trace[2].value
    /\ reply[1].key = trace[2].key
    /\ reply[1].result.value = <<trace[2].value>>

----------------------------------------------------------------------------
(* HTTPMockServer (package mocks) *)

(* the mocks of one server *)
MaxHTTPMocks == 2

StatusOK == 200

StatusNotFound == 404

(* strings.Contains *)
Contains(s, substr) ==
    \E i \in 0..(Len(s) - Len(substr)) : SubSeq(s, i + 1, i + Len(substr)) = substr

(* the lower case of the letters of the method names *)
ToLowerChar(c) ==
    IF c = "G" THEN "g" ELSE IF c = "E" THEN "e" ELSE IF c = "T" THEN "t"
    ELSE IF c = "P" THEN "p" ELSE IF c = "O" THEN "o" ELSE IF c = "S" THEN "s"
    ELSE c

(* strings.EqualFold *)
EqualFold(s, t) ==
    /\ Len(s) = Len(t)
    /\ \A k \in 1..Len(s) : ToLowerChar(s[k]) = ToLowerChar(t[k])

(* http.Header.Get: the value of the header, "" when it is not set *)
HeaderGet(headers, key) == IF key \in DOMAIN headers THEN headers[key] ELSE ""

HTTPResponse(status, headers, respBody) ==
    [Status |-> status, Headers |-> headers, Body |-> respBody]

(* matcher: nil (<<>>) or <<a RequestMatcher>> *)
RequestMatcher(headers, bodyPattern) ==
    [Headers |-> headers, BodyPattern |-> bodyPattern]

HTTPCallMock(url, method, matcher, response) ==
    [URL |-> url, Method |-> method, RequestMatcher |-> matcher,
     Response |-> response]

(* an incoming request: URL is r.URL.String(), Path is r.URL.Path, Body is *)
(* what is left to read of the body                                        *)
Request(method, url, path, headers, reqBody) ==
    [Method |-> method, URL |-> url, Path |-> path, Header |-> headers,
     Body |-> reqBody]

Matched(ok, r) == [ok |-> ok, r |-> r]

(* matches whose check of the body pattern leaves the body read *)
matchesConsumingBody(mock, r) ==
    IF mock.Method # <<>> /\ ~EqualFold(mock.Method, r.Method)
    THEN Matched(FALSE, r)
    ELSE IF /\ ~Contains(r.URL, mock.URL)
            /\ ~Contains(mock.URL, r.URL)
            /\ ~Contains(r.Path, mock.URL)
    THEN Matched(FALSE, r)
    ELSE IF mock.RequestMatcher = <<>> THEN Matched(TRUE, r)
    ELSE IF \E key \in DOMAIN mock.RequestMatcher[1].Headers :
               HeaderGet(r.Header, key) # mock.RequestMatcher[1].Headers[key]
    THEN Matched(FALSE, r)
    ELSE IF mock.RequestMatcher[1].BodyPattern = <<>> THEN Matched(TRUE, r)
    ELSE Matched(Contains(r.Body, mock.RequestMatcher[1].BodyPattern[1]),
                 [r EXCEPT !.Body = <<>>])

(* matches: whether the request r passes the test of the mock, and the     *)
(* request afterwards: io.ReadAll takes what is left of the body, which is *)
(* then put back                                                           *)
matches(mock, r) ==
    IF mock.Method # <<>> /\ ~EqualFold(mock.Method, r.Method)
    THEN Matched(FALSE, r)
    ELSE IF /\ ~Contains(r.URL, mock.URL)
            /\ ~Contains(mock.URL, r.URL)
            /\ ~Contains(r.Path, mock.URL)
    THEN Matched(FALSE, r)
    ELSE IF mock.RequestMatcher = <<>> THEN Matched(TRUE, r)
    ELSE IF \E key \in DOMAIN mock.RequestMatcher[1].Headers :
               HeaderGet(r.Header, key) # mock.RequestMatcher[1].Headers[key]
    THEN Matched(FALSE, r)
    ELSE IF mock.RequestMatcher[1].BodyPattern = <<>> THEN Matched(TRUE, r)
    ELSE LET read == r.Body
             restored == [[r EXCEPT !.Body = <<>>] EXCEPT !.Body = read]
         IN  Matched(Contains(read, mock.RequestMatcher[1].BodyPattern[1]), restored)

(* handler, lines 32-51: the response written for the mock that matched *)
writeMock(mock) ==
    HTTPResponse(
        IF mock.Response.Status = 0 THEN StatusOK ELSE mock.Response.Status,
        IF HeaderGet(mock.Response.Headers, "Content-Type") = ""
        THEN MapPut(mock.Response.Headers, "Content-Type", "application/json")
        ELSE mock.Response.Headers,
        mock.Response.Body)

(* the response for no mock with the status of a success *)
noMatchFoundOK ==
    HTTPResponse(StatusOK, <<>>, "{\"error\": \"No mock found for request\"}")

(* handler, lines 55-57: the response when no mock matched *)
noMatchFound ==
    HTTPResponse(StatusNotFound, <<>>, "{\"error\": \"No mock found for request\"}")

(* handler: the loop over the mocks from position k on, for the request r  *)
RECURSIVE handlerFrom(_, _, _)
handlerFrom(mocks, r, k) ==
    IF k > Len(mocks) THEN noMatchFound
    ELSE IF matches(mocks[k], r).ok THEN writeMock(mocks[k])
    ELSE handlerFrom(mocks, matches(mocks[k], r).r, k + 1)

handler(mocks, r) == handlerFrom(mocks, r, 1)

NewHTTPMockServer(mocks) == [mocks |-> mocks, writing |-> <<>>]

(* AddMock, whole *)
AddMock(s, mock) == [s EXCEPT !.mocks = Append(@, mock)]

(* Mocks and requests of the kind of TestHTTPMockServer *)

GET == <<"G", "E", "T">>

POST == <<"P", "O", "S", "T">>

NoHeaders == <<>>

HTTPMocks ==
    { HTTPCallMock(<<"/", "v">>, POST, <<>>, HTTPResponse(0, NoHeaders, "allowed")),
      HTTPCallMock(<<"/", "d">>, POST, <<>>, HTTPResponse(403, NoHeaders, "denied")),
      HTTPCallMock(<<"/", "v">>, <<>>,
                   <<RequestMatcher("X-Kind" :> "pod", <<>>)>>,
                   HTTPResponse(201, "Content-Type" :> "text/plain", "pod")),
      HTTPCallMock(<<"/", "v">>, POST, <<RequestMatcher(NoHeaders, <<<<"a">>>>)>>,
                   HTTPResponse(202, NoHeaders, "has a")),
      HTTPCallMock(<<"/", "v">>, POST, <<RequestMatcher(NoHeaders, <<<<"b">>>>)>>,
                   HTTPResponse(203, NoHeaders, "has b")),
      HTTPCallMock(<<"/", "a", " ", "b">>, <<>>, <<>>,
                   HTTPResponse(204, NoHeaders, "")),
      HTTPCallMock(<<"/", "v", "/", "x", "/", "y">>, GET, <<>>,
                   HTTPResponse(205, NoHeaders, "deep")) }

HTTPRequests ==
    { Request(POST, <<"/", "v">>, <<"/", "v">>, NoHeaders, <<>>),
      Request(<<"p", "o", "s", "t">>, <<"/", "v">>, <<"/", "v">>, NoHeaders, <<"b">>),
      Request(GET, <<"/", "v">>, <<"/", "v">>, "X-Kind" :> "pod", <<>>),
      Request(GET, <<"/", "u">>, <<"/", "u">>, NoHeaders, <<>>),
      Request(POST, <<"/", "v", "/", "x">>, <<"/", "v", "/", "x">>, NoHeaders,
              <<"a", "b">>),
      Request(GET, <<"/", "a", "%", "2", "0", "b">>, <<"/", "a", " ", "b">>,
              NoHeaders, <<>>),
      Request(POST, <<"/", "d">>, <<"/", "d">>, "X-Kind" :> "job", <<>>) }

HTTPMockLists == UNION { [1..n -> HTTPMocks] : n \in 0..MaxHTTPMocks }

Served(r, response) == [op |-> "ServeHTTP", request |-> r, response |-> response]

InitHTTP ==
    /\ IdleRunner
    /\ trace = <<>>
    /\ resolver = <<>>
    /\ server = <<>>
    /\ requests = <<>>
    /\ disco = <<>>
    /\ reply = <<>>

CallNewHTTPMockServer ==
    /\ server = <<>>
    /\ \E mocks \in HTTPMockLists : server' = <<NewHTTPMockServer(mocks)>>
    /\ reply' = <<>>
    /\ UNCHANGED <<idleVars, trace, resolver, requests, disco>>

CallAddMock ==
    /\ server # <<>>
    /\ Len(server[1].mocks) < MaxHTTPMocks
    /\ \E mock \in HTTPMocks : server' = <<AddMock(server[1], mock)>>
    /\ reply' = <<>>
    /\ UNCHANGED <<idleVars, trace, resolver, requests, disco>>

(* one request served from beginning to end *)
ServeHTTP ==
    /\ server # <<>>
    /\ reply = <<>>
    /\ \E r \in HTTPRequests :
          reply' = <<Served(r, handler(server[1].mocks, r))>>
    /\ UNCHANGED <<idleVars, trace, resolver, server, requests, disco>>

NextHTTP == CallNewHTTPMockServer \/ CallAddMock \/ ServeHTTP

SpecHTTP == InitHTTP /\ [][NextHTTP]_vars

(* Properties of the HTTP mock server *)

Mocks == IF server = <<>> THEN <<>> ELSE server[1].mocks

(* the matching test of a mock, on the request as it arrived *)
Passes(mock, r) ==
    /\ mock.Method # <<>> => EqualFold(mock.Method, r.Method)
    /\ \/ Contains(r.URL, mock.URL)
       \/ Contains(mock.URL, r.URL)
       \/ Contains(r.Path, mock.URL)
    /\ mock.RequestMatcher # <<>> =>
          /\ \A key \in DOMAIN mock.RequestMatcher[1].Headers :
                HeaderGet(r.Header, key) = mock.RequestMatcher[1].Headers[key]
          /\ mock.RequestMatcher[1].BodyPattern # <<>> =>
                Contains(r.Body, mock.RequestMatcher[1].BodyPattern[1])

NotFoundBody == "{\"error\": \"No mock found for request\"}"

(* C16 as stated: a request to a path that is the URL of no registered     *)
(* mock is answered with status 404                                        *)
C16_UnregisteredPathIs404 ==
    \A k \in 1..Len(reply) :
        (\A i \in 1..Len(Mocks) : Mocks[i].URL # reply[k].request.Path)
            => reply[k].response.Status = StatusNotFound

(* C16: a request that passes the matching test of no registered mock, in  *)
(* particular one whose URL neither contains nor is contained in the URL   *)
(* of any mock and whose path contains none, is answered with status 404   *)
C16_UnmatchedRequestIs404 ==
    \A k \in 1..Len(reply) :
        LET r == reply[k].request
        IN  /\ (\A i \in 1..Len(Mocks) : ~Passes(Mocks[i], r))
                => reply[k].response.Status = StatusNotFound
            /\ (\A i \in 1..Len(Mocks) :
                    /\ ~Contains(r.URL, Mocks[i].URL)
                    /\ ~Contains(Mocks[i].URL, r.URL)
                    /\ ~Contains(r.Path, Mocks[i].URL))
                => reply[k].response.Status = StatusNotFound

C16_Witness ==
    /\ Len(Mocks) = MaxHTTPMocks
    /\ \E k \in 1..Len(reply) :
          /\ reply[k].request.URL = <<"/", "u">>
          /\ reply[k].response.Status = StatusNotFound

(* C17: the answer is that of the first mock, in the order of              *)
(* registration, that passes the matching test; 404 with the fixed JSON    *)
(* body exactly when none passes; a body pattern checked for one mock      *)
(* leaves the body readable for the next                                   *)
C17_FirstMatchingMockAnswers ==
    \A k \in 1..Len(reply) :
        LET r == reply[k].request
            passing == { i \in 1..Len(Mocks) : Passes(Mocks[i], r) }
        IN  /\ passing # {} =>
                  LET first == CHOOSE i \in passing : \A j \in passing : i <= j
                      m == Mocks[first]
                  IN  /\ reply[k].response.Status =
                            (IF m.Response.Status = 0 THEN StatusOK
                             ELSE m.Response.Status)
                      /\ reply[k].response.Body = m.Response.Body
                      /\ \A h \in DOMAIN m.Response.Headers :
                            reply[k].response.Headers[h] = m.Response.Headers[h]
                      /\ reply[k].response.Headers["Content-Type"] =
                            (IF "Content-Type" \in DOMAIN m.Response.Headers
                             THEN m.Response.Headers["Content-Type"]
                             ELSE "application/json")
            /\ passing = {} <=>
                  /\ reply[k].response.Status = StatusNotFound
                  /\ reply[k].response.Body = NotFoundBody

(* the second of two mocks with a body pattern answers *)
C17_Witness ==
    /\ Len(Mocks) = 2
    /\ Mocks[1].RequestMatcher # <<>>
    /\ Mocks[1].RequestMatcher[1].BodyPattern = <<<<"a">>>>
    /\ \E k \in 1..Len(reply) :
          /\ reply[k].request.Body = <<"b">>
          /\ reply[k].response.Status = 203

----------------------------------------------------------------------------
(* HTTPMockServer with AddMock while requests are being served: the        *)
(* server runs one goroutine for each request, AddMock runs in the         *)
(* caller's, and s.mocks is guarded by no lock                             *)

(* the requests being served at one time *)
MaxInFlight == 1

(* the zero value of HTTPCallMock: what a slot of the backing array holds  *)
(* before the appended mock is written to it                               *)
ZeroMock == HTTPCallMock(<<>>, <<>>, <<>>, HTTPResponse(0, NoHeaders, ""))

RaceMocks ==
    { HTTPCallMock(<<"/", "v">>, POST, <<>>, HTTPResponse(0, NoHeaders, "allowed")),
      HTTPCallMock(<<"/", "d">>, POST, <<>>, HTTPResponse(403, NoHeaders, "denied")) }

RaceRequests ==
    { Request(POST, <<"/", "v">>, <<"/", "v">>, NoHeaders, <<>>),
      Request(POST, <<"/", "d">>, <<"/", "d">>, NoHeaders, <<>>) }

RaceMockLists == UNION { [1..n -> RaceMocks] : n \in 0..MaxHTTPMocks }

(* what `range s.mocks` can see of the slice while AddMock is storing the  *)
(* result of append to it: the old slice, the new one, or the new length   *)
(* over a slot that is not written yet                                     *)
racyRead(s) ==
    { s.mocks, Append(s.mocks, s.writing[1]), Append(s.mocks, ZeroMock) }

(* a request in its handler: the slice its loop ranges over, whether that  *)
(* was read during a write, and the lists before and after that write      *)
InFlight(r, mocks, raced, lists) ==
    [request |-> r, mocks |-> mocks, raced |-> raced, lists |-> lists]

Remove(seq, i) == SubSeq(seq, 1, i - 1) \o SubSeq(seq, i + 1, Len(seq))

InitHTTPRace ==
    /\ IdleRunner
    /\ trace = <<>>
    /\ resolver = <<>>
    /\ \E mocks \in RaceMockLists : server = <<NewHTTPMockServer(mocks)>>
    /\ requests = <<>>
    /\ disco = <<>>
    /\ reply = <<>>

(* AddMock, line 121: append has been evaluated, the store to s.mocks      *)
(* begins                                                                  *)
AddMockBegin ==
    /\ server[1].writing = <<>>
    /\ Len(server[1].mocks) < MaxHTTPMocks
    /\ \E mock \in RaceMocks : server' = <<[server[1] EXCEPT !.writing = <<mock>>]>>
    /\ UNCHANGED <<idleVars, trace, resolver, requests, disco, reply>>

(* AddMock, line 121: the store to s.mocks is complete *)
AddMockEnd ==
    /\ server[1].writing # <<>>
    /\ server' = <<[AddMock(server[1], server[1].writing[1]) EXCEPT !.writing = <<>>]>>
    /\ UNCHANGED <<idleVars, trace, resolver, requests, disco, reply>>

(* handler, line 30: the loop reads s.mocks once *)
HandlerRange ==
    /\ Len(requests) < MaxInFlight
    /\ \E r \in RaceRequests :
          IF server[1].writing = <<>>
          THEN requests' = Append(requests,
                   InFlight(r, server[1].mocks, FALSE, {server[1].mocks}))
          ELSE \E seen \in racyRead(server[1]) :
                   requests' = Append(requests,
                       InFlight(r, seen, TRUE,
                                {server[1].mocks,
                                 Append(server[1].mocks, server[1].writing[1])}))
    /\ UNCHANGED <<idleVars, trace, resolver, server, disco, reply>>

(* handler, lines 30-57: the loop over the slice read, and the response *)
HandlerRespond ==
    /\ \E i \in 1..Len(requests) :
          /\ reply' = <<[op |-> "ServeHTTP",
                         request |-> requests[i].request,
                         response |-> handler(requests[i].mocks, requests[i].request),
                         raced |-> requests[i].raced,
                         lists |-> requests[i].lists]>>
          /\ requests' = Remove(requests, i)
    /\ UNCHANGED <<idleVars, trace, resolver, server, disco>>

NextHTTPRace == AddMockBegin \/ AddMockEnd \/ HandlerRange \/ HandlerRespond

SpecHTTPRace == InitHTTPRace /\ [][NextHTTPRace]_vars

(* C18: with AddMock on a running server, the list of mocks is never read  *)
(* while it is written, and every request is answered according to the     *)
(* list before or the list after each AddMock                              *)
C18_ConcurrentAccessIsSafe ==
    /\ \A i \in 1..Len(requests) : ~requests[i].raced
    /\ \A k \in 1..Len(reply) :
          /\ ~reply[k].raced
          /\ \E l \in reply[k].lists :
                reply[k].response = handler(l, reply[k].request)

----------------------------------------------------------------------------
(* enhancedFakeDiscovery (package libs) *)

(* the calls of RegisterResource on one registry *)
MaxRegistrations == 2

GroupVersionResource(group, version, resource) ==
    [Group |-> group, Version |-> version, Resource |-> resource]

GroupVersionKind(group, version, kind) ==
    [Group |-> group, Version |-> version, Kind |-> kind]

Entry(group, version, resource, kind) ==
    [group |-> group, version |-> version, resource |-> resource, kind |-> kind]

(* newEnhancedFakeDiscovery: the pre-registered resources *)
coreResources ==
    << 
       Entry("", "v1", "bindings", "Binding"),
       Entry("", "v1", "componentstatuses", "ComponentStatus"),
       Entry("", "v1", "configmaps", "ConfigMap"),
       Entry("", "v1", "endpoints", "Endpoints"),
       Entry("", "v1", "events", "Event"),
       Entry("", "v1", "limitranges", "LimitRange"),
       Entry("", "v1", "namespaces", "Namespace"),
       Entry("", "v1", "nodes", "Node"),
       Entry("", "v1", "persistentvolumeclaims", "PersistentVolumeClaim"),
       Entry("", "v1", "persistentvolumes", "PersistentVolume"),
       Entry("", "v1", "pods", "Pod"),
       Entry("", "v1", "replicationcontrollers", "ReplicationController"),
       Entry("", "v1", "resourcequotas", "ResourceQuota"),
       Entry("", "v1", "secrets", "Secret"),
       Entry("", "v1", "serviceaccounts", "ServiceAccount"),
       Entry("", "v1", "services", "Service"),
       Entry("apps", "v1", "controllerrevisions", "ControllerRevision"),
       Entry("apps", "v1", "daemonsets", "DaemonSet"),
       Entry("apps", "v1", "deployments", "Deployment"),
       Entry("apps", "v1", "replicasets", "ReplicaSet"),
       Entry("apps", "v1", "statefulsets", "StatefulSet"),
       Entry("batch", "v1", "cronjobs", "CronJob"),
       Entry("batch", "v1", "jobs", "Job"),
       Entry("networking.k8s.io", "v1", "ingressclasses", "IngressClass"),
       Entry("networking.k8s.io", "v1", "ingresses", "Ingress"),
       Entry("networking.k8s.io", "v1", "networkpolicies", "NetworkPolicy"),
       Entry("storage.k8s.io", "v1", "csidrivers", "CSIDriver"),
       Entry("storage.k8s.io", "v1", "csinodes", "CSINode"),
       Entry("storage.k8s.io", "v1", "csistoragecapacities", "CSIStorageCapacity"),
       Entry("storage.k8s.io", "v1", "storageclasses", "StorageClass"),
       Entry("storage.k8s.io", "v1", "volumeattachments", "VolumeAttachment"),
       Entry("rbac.authorization.k8s.io", "v1", "clusterrolebindings", "ClusterRoleBinding"),
       Entry("rbac.authorization.k8s.io", "v1", "clusterroles", "ClusterRole"),
       Entry("rbac.authorization.k8s.io", "v1", "rolebindings", "RoleBinding"),
       Entry("rbac.authorization.k8s.io", "v1", "roles", "Role"),
       Entry("autoscaling", "v2", "horizontalpodautoscalers", "HorizontalPodAutoscaler"),
       Entry("autoscaling", "v1", "horizontalpodautoscalers", "HorizontalPodAutoscaler"),
       Entry("policy", "v1", "poddisruptionbudgets", "PodDisruptionBudget"),
       Entry("certificates.k8s.io", "v1", "certificatesigningrequests", "CertificateSigningRequest"),
       Entry("coordination.k8s.io", "v1", "leases", "Lease"),
       Entry("discovery.k8s.io", "v1", "endpointslices", "EndpointSlice"),
       Entry("node.k8s.io", "v1", "runtimeclasses", "RuntimeClass"),
       Entry("scheduling.k8s.io", "v1", "priorityclasses", "PriorityClass"),
       Entry("admissionregistration.k8s.io", "v1", "mutatingwebhookconfigurations", "MutatingWebhookConfiguration"),
       Entry("admissionregistration.k8s.io", "v1", "validatingwebhookconfigurations", "ValidatingWebhookConfiguration"),
       Entry("apiextensions.k8s.io", "v1", "customresourcedefinitions", "CustomResourceDefinition"),
       Entry("apiregistration.k8s.io", "v1", "apiservices", "APIService"),
       Entry("events.k8s.io", "v1", "events", "Event"),
       Entry("flowcontrol.apiserver.k8s.io", "v1", "flowschemas", "FlowSchema"),
       Entry("flowcontrol.apiserver.k8s.io", "v1", "prioritylevelconfigurations", "PriorityLevelConfiguration"),
       Entry("kyverno.io", "v1", "clusterpolicies", "ClusterPolicy"),
       Entry("kyverno.io", "v1", "policies", "Policy"),
       Entry("kyverno.io", "v1", "clusteradmissionreports", "ClusterAdmissionReport"),
       Entry("kyverno.io", "v1", "admissionreports", "AdmissionReport"),
       Entry("kyverno.io", "v2", "updaterequests", "UpdateRequest"),
       Entry("kyverno.io", "v2", "cleanuppolicies", "CleanupPolicy"),
       Entry("kyverno.io", "v2", "clustercleanuppolicies", "ClusterCleanupPolicy"),
       Entry("kyverno.io", "v2alpha1", "globalcontextentries", "GlobalContextEntry"),
       Entry("wgpolicyk8s.io", "v1alpha2", "clusterpolicyreports", "ClusterPolicyReport"),
       Entry("wgpolicyk8s.io", "v1alpha2", "policyreports", "PolicyReport") >>

(* strings.ToLower on the kinds of the catalogue and of the calls *)
LowerCase ==
    "Binding" :> "binding" @@
    "ComponentStatus" :> "componentstatus" @@
    "ConfigMap" :> "configmap" @@
    "Endpoints" :> "endpoints" @@
    "Event" :> "event" @@
    "LimitRange" :> "limitrange" @@
    "Namespace" :> "namespace" @@
    "Node" :> "node" @@
    "PersistentVolumeClaim" :> "persistentvolumeclaim" @@
    "PersistentVolume" :> "persistentvolume" @@
    "Pod" :> "pod" @@
    "ReplicationController" :> "replicationcontroller" @@
    "ResourceQuota" :> "resourcequota" @@
    "Secret" :> "secret" @@
    "ServiceAccount" :> "serviceaccount" @@
    "Service" :> "service" @@
    "ControllerRevision" :> "controllerrevision" @@
    "DaemonSet" :> "daemonset" @@
    "Deployment" :> "deployment" @@
    "ReplicaSet" :> "replicaset" @@
    "StatefulSet" :> "statefulset" @@
    "CronJob" :> "cronjob" @@
    "Job" :> "job" @@
    "IngressClass" :> "ingressclass" @@
    "Ingress" :> "ingress" @@
    "NetworkPolicy" :> "networkpolicy" @@
    "CSIDriver" :> "csidriver" @@
    "CSINode" :> "csinode" @@
    "CSIStorageCapacity" :> "csistoragecapacity" @@
    "StorageClass" :> "storageclass" @@
    "VolumeAttachment" :> "volumeattachment" @@
    "ClusterRoleBinding" :> "clusterrolebinding" @@
    "ClusterRole" :> "clusterrole" @@
    "RoleBinding" :> "rolebinding" @@
    "Role" :> "role" @@
    "HorizontalPodAutoscaler" :> "horizontalpodautoscaler" @@
    "PodDisruptionBudget" :> "poddisruptionbudget" @@
    "CertificateSigningRequest" :> "certificatesigningrequest" @@
    "Lease" :> "lease" @@
    "EndpointSlice" :> "endpointslice" @@
    "RuntimeClass" :> "runtimeclass" @@
    "PriorityClass" :> "priorityclass" @@
    "MutatingWebhookConfiguration" :> "mutatingwebhookconfiguration" @@
    "ValidatingWebhookConfiguration" :> "validatingwebhookconfiguration" @@
    "CustomResourceDefinition" :> "customresourcedefinition" @@
    "APIService" :> "apiservice" @@
    "FlowSchema" :> "flowschema" @@
    "PriorityLevelConfiguration" :> "prioritylevelconfiguration" @@
    "ClusterPolicy" :> "clusterpolicy" @@
    "Policy" :> "policy" @@
    "ClusterAdmissionReport" :> "clusteradmissionreport" @@
    "AdmissionReport" :> "admissionreport" @@
    "UpdateRequest" :> "updaterequest" @@
    "CleanupPolicy" :> "cleanuppolicy" @@
    "ClusterCleanupPolicy" :> "clustercleanuppolicy" @@
    "GlobalContextEntry" :> "globalcontextentry" @@
    "ClusterPolicyReport" :> "clusterpolicyreport" @@
    "PolicyReport" :> "policyreport" @@
    "pod" :> "pod" @@
    "POD" :> "pod" @@
    "DEPLOYMENT" :> "deployment" @@
    "clusterpolicy" :> "clusterpolicy" @@
    "Widget" :> "widget" @@
    "widget" :> "widget" @@
    "WIDGET" :> "widget" @@
    "Gadget" :> "gadget" @@
    "Unknown" :> "unknown"

ToLower(kind) == LowerCase[kind]

(* newEnhancedFakeDiscovery, the loop over coreResources: every entry is   *)
(* appended to resources, and the map holds for a GVR the kind of the last *)
(* entry that names it                                                     *)
coreGVR(k) ==
    GroupVersionResource(coreResources[k].group, coreResources[k].version,
                         coreResources[k].resource)

coreGVK(k) ==
    GroupVersionKind(coreResources[k].group, coreResources[k].version,
                     coreResources[k].kind)

newEnhancedFakeDiscovery ==
    [resources |-> [k \in 1..Len(coreResources) |-> coreGVR(k)],
     gvrToGVK |->
        [gvr \in { coreGVR(k) : k \in 1..Len(coreResources) } |->
            coreGVK(CHOOSE k \in 1..Len(coreResources) :
                        /\ coreGVR(k) = gvr
                        /\ \A j \in (k + 1)..Len(coreResources) : coreGVR(j) # gvr)]]

(* RegisterResource that adds the GVR whether or not it is present *)
RegisterResourceAgain(d, gvr, gvk) ==
    [resources |-> Append(d.resources, gvr),
     gvrToGVK |-> MapPut(d.gvrToGVK, gvr, gvk)]

RegisterResource(d, gvr, gvk) ==
    IF \E i \in 1..Len(d.resources) : d.resources[i] = gvr THEN d
    ELSE [resources |-> Append(d.resources, gvr),
          gvrToGVK |-> MapPut(d.gvrToGVK, gvr, gvk)]

AllGVRs(d) == d.resources

ResourceCount(d) == Len(d.resources)

Found(gvr, found) == [gvr |-> gvr, found |-> found]

ZeroGVR == GroupVersionResource("", "", "")

(* FindResource that compares the kinds as they are written *)
FindResourceExactCase(d, kind) ==
    LET hits == { gvr \in DOMAIN d.gvrToGVK : d.gvrToGVK[gvr].Kind = kind }
    IN  IF hits = {} THEN { Found(ZeroGVR, FALSE) }
        ELSE { Found(gvr, TRUE) : gvr \in hits }

(* FindResource: the results it can return; the loop ranges over a map, in *)
(* an order that is not fixed, and returns at the first kind that is equal *)
FindResource(d, kind) ==
    LET lowerKind == ToLower(kind)
        hits == { gvr \in DOMAIN d.gvrToGVK :
                      ToLower(d.gvrToGVK[gvr].Kind) = lowerKind }
    IN  IF hits = {} THEN { Found(ZeroGVR, FALSE) }
        ELSE { Found(gvr, TRUE) : gvr \in hits }

(* Calls of the kind of TestEnhancedFakeDiscoveryRegisterCustom *)

Registered(gvr, gvk) == [gvr |-> gvr, gvk |-> gvk]

RegisterCalls ==
    { Registered(GroupVersionResource("example.com", "v1", "widgets"),
                 GroupVersionKind("example.com", "v1", "Widget")),
      Registered(GroupVersionResource("example.com", "v1", "widgets"),
                 GroupVersionKind("example.com", "v1", "Gadget")),
      Registered(GroupVersionResource("example.com", "v1", "gadgets"),
                 GroupVersionKind("example.com", "v1", "WIDGET")),
      Registered(GroupVersionResource("", "v1", "pods"),
                 GroupVersionKind("", "v1", "Widget")),
      Registered(GroupVersionResource("example.com", "v1", "pods"),
                 GroupVersionKind("example.com", "v1", "POD")) }

FindCalls == DOMAIN LowerCase

DiscoCall(op, kind, result) == [op |-> op, kind |-> kind, result |-> result]

(* the registrations of the constructor, in order *)
coreRegistrations ==
    [k \in 1..Len(coreResources) |-> Registered(coreGVR(k), coreGVK(k))]

InitDisco ==
    /\ IdleRunner
    /\ trace = <<>>
    /\ resolver = <<>>
    /\ server = <<>>
    /\ requests = <<>>
    /\ disco = <<>>
    /\ reply = <<>>

CallNewEnhancedFakeDiscovery ==
    /\ disco = <<>>
    /\ disco' = <<newEnhancedFakeDiscovery>>
    /\ trace' = coreRegistrations
    /\ reply' = <<>>
    /\ UNCHANGED <<idleVars, resolver, server, requests>>

CallRegisterResource ==
    /\ disco # <<>>
    /\ Len(trace) < Len(coreResources) + MaxRegistrations
    /\ \E c \in RegisterCalls :
          /\ disco' = <<RegisterResource(disco[1], c.gvr, c.gvk)>>
          /\ trace' = Append(trace, c)
    /\ reply' = <<>>
    /\ UNCHANGED <<idleVars, resolver, server, requests>>

CallResourceCount ==
    /\ disco # <<>>
    /\ reply = <<>>
    /\ reply' = <<DiscoCall("ResourceCount", "", ResourceCount(disco[1]))>>
    /\ UNCHANGED <<idleVars, trace, resolver, server, requests, disco>>

CallFindResource ==
    /\ disco # <<>>
    /\ reply = <<>>
    /\ \E kind \in FindCalls :
          \E result \in FindResource(disco[1], kind) :
              reply' = <<DiscoCall("FindResource", kind, result)>>
    /\ UNCHANGED <<idleVars, trace, resolver, server, requests, disco>>

NextDisco ==
    \/ CallNewEnhancedFakeDiscovery
    \/ CallRegisterResource
    \/ CallResourceCount
    \/ CallFindResource

SpecDisco == InitDisco /\ [][NextDisco]_vars

(* Properties of the discovery registry *)

Registry == disco[1]

(* the GVRs registered so far, by the constructor or by RegisterResource *)
RegisteredGVRs == { trace[i].gvr : i \in 1..Len(trace) }

FirstRegistration(gvr) ==
    trace[CHOOSE i \in 1..Len(trace) :
              /\ trace[i].gvr = gvr
              /\ \A j \in 1..(i - 1) : trace[j].gvr # gvr]

(* C19: the registry holds no GVR twice, ResourceCount is the number of    *)
(* distinct GVRs registered, the catalogue included, and the kind of a GVR *)
(* is that of its first registration                                       *)
C19_RegisterResourceIsIdempotent ==
    disco # <<>> =>
        /\ \A i, j \in 1..Len(Registry.resources) :
              Registry.resources[i] = Registry.resources[j] => i = j
        /\ { Registry.resources[i] : i \in 1..Len(Registry.resources) }
              = RegisteredGVRs
        /\ ResourceCount(Registry) = Cardinality(RegisteredGVRs)
        /\ \A k \in 1..Len(reply) :
              reply[k].op = "ResourceCount" =>
                  reply[k].result = Cardinality(RegisteredGVRs)
        /\ DOMAIN Registry.gvrToGVK = RegisteredGVRs
        /\ \A gvr \in RegisteredGVRs :
              Registry.gvrToGVK[gvr] = FirstRegistration(gvr).gvk

(* a GVR registered a second time with another kind, and the count read *)
C19_Witness ==
    /\ disco # <<>>
    /\ \E i, j \in 1..Len(trace) :
          /\ i < j
          /\ trace[i].gvr = trace[j].gvr
          /\ trace[i].gvk # trace[j].gvk
    /\ \E k \in 1..Len(reply) :
          /\ reply[k].op = "ResourceCount"
          /\ reply[k].result = Len(coreResources) + 1

(* the registered GVRs whose kind is the argument, ignoring letter case *)
WithKind(kind) ==
    { gvr \in RegisteredGVRs :
          ToLower(FirstRegistration(gvr).gvk.Kind) = ToLower(kind) }

(* the last call of RegisterResource added a GVR that was not present,     *)
(* with a kind that no GVR present had                                     *)
NewKindRegistered ==
    /\ Len(trace) > Len(coreResources)
    /\ LET c == trace[Len(trace)]
       IN  \A i \in 1..(Len(trace) - 1) :
               /\ trace[i].gvr # c.gvr
               /\ ToLower(trace[i].gvk.Kind) # ToLower(c.gvk.Kind)

(* C20: FindResource finds a kind exactly when some registered GVR has it, *)
(* ignoring letter case, and returns a GVR registered with such a kind; a  *)
(* fresh registry finds every kind of the catalogue; after a new GVR is    *)
(* registered with a kind that is not in the catalogue, FindResource of    *)
(* that kind returns that GVR                                              *)
C20_FindResourceIgnoresCase ==
    \A k \in 1..Len(reply) :
        reply[k].op = "FindResource" =>
            LET kind == reply[k].kind
                result == reply[k].result
            IN  /\ result.found <=> WithKind(kind) # {}
                /\ result.found => result.gvr \in WithKind(kind)
                /\ (\E e \in 1..Len(coreResources) : coreResources[e].kind = kind)
                       => result.found
                /\ (NewKindRegistered
                    /\ ToLower(kind) = ToLower(trace[Len(trace)].gvk.Kind))
                       => /\ result.found
                          /\ result.gvr = trace[Len(trace)].gvr

(* a registered Widget found by another spelling of its kind *)
C20_Witness ==
    /\ NewKindRegistered
    /\ \E k \in 1..Len(reply) :
          /\ reply[k].op = "FindResource"
          /\ reply[k].kind = "widget"
          /\ reply[k].result.found
          /\ reply[k].result.gvr = GroupVersionResource("example.com", "v1", "widgets")

(* the registry as the constructor leaves it *)
FreshRegistry == disco # <<>> /\ Len(trace) = Len(coreResources)

(* C21: no two entries of the catalogue carry the same kind, so that on a  *)
(* fresh registry FindResource returns the same GVR for a kind on every    *)
(* call                                                                    *)
C21_CatalogHasNoKindCollisions ==
    FreshRegistry =>
        /\ \A i, j \in 1..Len(coreResources) :
              coreResources[i].kind = coreResources[j].kind => i = j
        /\ \A k \in 1..Len(reply) :
              reply[k].op = "FindResource" =>
                  FindResource(Registry, reply[k].kind) = { reply[k].result }

----------------------------------------------------------------------------
(* fastBackend: Setup, Teardown, IsReady and Client called in any order on *)
(* one backend                                                             *)

(* the calls of Setup and Teardown on one backend *)
MaxCalls == 3

(* a call of Setup or Teardown: whether dclient.NewClient returned a       *)
(* client, the error returned, and IsReady() and Client() != nil after it  *)
BackendCall(op, clientOK, err, b) ==
    [op |-> op, clientOK |-> clientOK, err |-> err,
     ready |-> IsReady(b), client |-> Client(b)]

BackendQuery(op, result) == [op |-> op, result |-> result]

(* dclient.NewClient on the fake dynamic client and the fake clientset of  *)
(* fastBackend.Setup: it returns a client                                  *)
NewClientOutcomes == {TRUE}

InitFast ==
    /\ config = DefaultConfig
    /\ backend = 1
    /\ heap = <<newFastBackend>>
    /\ out = <<>>
    /\ pc = "start"
    /\ policies = <<>>
    /\ resources = <<>>
    /\ summary = <<>>
    /\ ret = Return(FALSE, NoError)
    /\ trace = <<>>
    /\ resolver = <<>>
    /\ server = <<>>
    /\ requests = <<>>
    /\ disco = <<>>
    /\ reply = <<>>

CallFastSetup ==
    /\ Len(trace) < MaxCalls
    /\ \E rs \in ResourceLists, clientOK \in NewClientOutcomes :
          LET done == fastSetup(heap[backend], objects(rs), clientOK)
          IN  /\ heap' = [heap EXCEPT ![backend] = done.b]
              /\ trace' = Append(trace, BackendCall("Setup", clientOK, done.err, done.b))
    /\ reply' = <<>>
    /\ UNCHANGED <<config, backend, out, pc, policies, resources, summary, ret,
                   resolver, server, requests, disco>>

CallFastTeardown ==
    /\ Len(trace) < MaxCalls
    /\ LET done == fastTeardown(heap[backend])
       IN  /\ heap' = [heap EXCEPT ![backend] = done.b]
           /\ trace' = Append(trace, BackendCall("Teardown", TRUE, done.err, done.b))
    /\ reply' = <<>>
    /\ UNCHANGED <<config, backend, out, pc, policies, resources, summary, ret,
                   resolver, server, requests, disco>>

CallIsReady ==
    /\ reply = <<>>
    /\ reply' = <<BackendQuery("IsReady", IsReady(heap[backend]))>>
    /\ UNCHANGED <<idleVars, trace, resolver, server, requests, disco>>

CallClient ==
    /\ reply = <<>>
    /\ reply' = <<BackendQuery("Client", Client(heap[backend]))>>
    /\ UNCHANGED <<idleVars, trace, resolver, server, requests, disco>>

NextFast == CallFastSetup \/ CallFastTeardown \/ CallIsReady \/ CallClient

SpecFast == InitFast /\ [][NextFast]_vars

(* Properties of the fast backend *)

(* what the queries of the present state answer *)
QueriesAgree ==
    \A k \in 1..Len(reply) :
        /\ reply[k].op = "IsReady" =>
              reply[k].result = (IF trace = <<>> THEN FALSE
                                 ELSE trace[Len(trace)].ready)
        /\ reply[k].op = "Client" =>
              reply[k].result = (IF trace = <<>> THEN FALSE
                                 ELSE trace[Len(trace)].client)

(* IsReady() is true exactly when Client() is not nil, after every call *)
ReadyIffClient ==
    /\ IsReady(heap[backend]) <=> Client(heap[backend])
    /\ \A i \in 1..Len(trace) : trace[i].ready <=> trace[i].client

TeardownClears ==
    \A i \in 1..Len(trace) :
        trace[i].op = "Teardown" =>
            /\ trace[i].err = NoError
            /\ ~trace[i].ready
            /\ ~trace[i].client

----------------------------------------------------------------------------
(* The resource name of a seed object (fastBackend.Setup, seedObjects,     *)
(* inferResourceFromKind).  A kind is a sequence of characters.            *)

(* the length of the kinds tried letter by letter *)
MaxKindLen == 3

UpperCaseLetters ==
    <<"A", "B", "C", "D", "E", "F", "G", "H", "I", "J", "K", "L", "M",
      "N", "O", "P", "Q", "R", "S", "T", "U", "V", "W", "X", "Y", "Z">>

LowerCaseLetters ==
    <<"a", "b", "c", "d", "e", "f", "g", "h", "i", "j", "k", "l", "m",
      "n", "o", "p", "q", "r", "s", "t", "u", "v", "w", "x", "y", "z">>

ToLowerRune(c) ==
    IF \E i \in 1..Len(UpperCaseLetters) : UpperCaseLetters[i] = c
    THEN LowerCaseLetters[CHOOSE i \in 1..Len(UpperCaseLetters) :
                              UpperCaseLetters[i] = c]
    ELSE c

(* strings.ToLower, on a sequence of characters *)
Lower(s) == [i \in 1..Len(s) |-> ToLowerRune(s[i])]

(* strings.HasSuffix *)
HasSuffix(s, suffix) ==
    /\ Len(s) >= Len(suffix)
    /\ SubSeq(s, Len(s) - Len(suffix) + 1, Len(s)) = suffix

(* inferResourceFromKind that appends s whatever the ending *)
inferResourceAppendingS(kind) == Lower(kind) \o <<"s">>

inferResourceFromKind(kind) ==
    LET lower == Lower(kind)
    IN  IF /\ HasSuffix(lower, <<"y">>)
           /\ Len(lower) > 1
           /\ ~HasSuffix(lower, <<"a", "y">>)
           /\ ~HasSuffix(lower, <<"e", "y">>)
           /\ ~HasSuffix(lower, <<"o", "y">>)
        THEN SubSeq(lower, 1, Len(lower) - 1) \o <<"i", "e", "s">>
        ELSE IF HasSuffix(lower, <<"s">>) \/ HasSuffix(lower, <<"x">>)
        THEN lower \o <<"e", "s">>
        ELSE lower \o <<"s">>

(* fastBackend.Setup, lines 385-404, for one object: the GVRs it passes to *)
(* RegisterResource; an object without a kind is passed over               *)
fastRegisters(gvk) ==
    IF gvk.Kind = <<>> THEN <<>>
    ELSE <<GroupVersionResource(gvk.Group, gvk.Version, Lower(gvk.Kind) \o <<"s">>)>>

(* seedObjects, lines 102-109, for one object: the GVR it creates the      *)
(* object under                                                            *)
seedGVR(gvk) ==
    GroupVersionResource(gvk.Group, gvk.Version, inferResourceFromKind(gvk.Kind))

KindLetters == {"a", "e", "o", "y", "s", "x", "d", "Y", "S", "P"}

ExampleKinds ==
    { <<"D", "e", "p", "l", "o", "y", "m", "e", "n", "t">>,
      <<"P", "o", "l", "i", "c", "y">>,
      <<"I", "n", "g", "r", "e", "s", "s">>,
      <<"N", "e", "t", "w", "o", "r", "k", "P", "o", "l", "i", "c", "y">>,
      <<"P", "o", "d">>,
      <<"G", "a", "t", "e", "w", "a", "y">>,
      <<"K", "e", "y">>,
      <<"B", "o", "x">> }

KindStrings ==
    UNION { [1..n -> KindLetters] : n \in 0..MaxKindLen } \cup ExampleKinds

SeedCall(op, kind, result) == [op |-> op, kind |-> kind, result |-> result]

Called(op) == \E k \in 1..Len(reply) : reply[k].op = op

(* the seed object: an object of group example.com, version v1 and the     *)
(* kind drawn                                                              *)
SeedKind == requests[1]

SeedGVK == GroupVersionKind("example.com", "v1", SeedKind)

InitInfer ==
    /\ IdleRunner
    /\ trace = <<>>
    /\ resolver = <<>>
    /\ server = <<>>
    /\ requests \in { <<kind>> : kind \in KindStrings }
    /\ disco = <<>>
    /\ reply = <<>>

CallInferResourceFromKind ==
    /\ ~Called("inferResourceFromKind")
    /\ reply' = Append(reply, SeedCall("inferResourceFromKind", SeedKind,
                                       inferResourceFromKind(SeedKind)))
    /\ UNCHANGED <<idleVars, trace, resolver, server, requests, disco>>

(* fastBackend.Setup with the seed object: the resource names registered *)
FastSetupRegisters ==
    /\ ~Called("fastBackend.Setup")
    /\ reply' = Append(reply, SeedCall("fastBackend.Setup", SeedKind,
                           [i \in 1..Len(fastRegisters(SeedGVK)) |->
                               fastRegisters(SeedGVK)[i].Resource]))
    /\ UNCHANGED <<idleVars, trace, resolver, server, requests, disco>>

(* seedObjects with the seed object: the resource name it is created under *)
SeedObject ==
    /\ ~Called("seedObjects")
    /\ reply' = Append(reply, SeedCall("seedObjects", SeedKind,
                                       seedGVR(SeedGVK).Resource))
    /\ UNCHANGED <<idleVars, trace, resolver, server, requests, disco>>

NextInfer == CallInferResourceFromKind \/ FastSetupRegisters \/ SeedObject

SpecInfer == InitInfer /\ [][NextInfer]_vars

(* Properties of the resource names *)

(* C23: the resource name that fastBackend.Setup registers for an object   *)
(* is inferResourceFromKind of its kind, the name under which seedObjects  *)
(* creates the same object                                                 *)
C23_SameResourceName ==
    \A i, j \in 1..Len(reply) :
        (/\ reply[i].op = "fastBackend.Setup"
         /\ reply[j].op \in {"seedObjects", "inferResourceFromKind"})
            => \A n \in 1..Len(reply[i].result) :
                   reply[i].result[n] = reply[j].result

(* the rules as stated, on a lower-cased kind *)
StatedPlural(lower) ==
    IF /\ HasSuffix(lower, <<"y">>)
       /\ ~HasSuffix(lower, <<"a", "y">>)
       /\ ~HasSuffix(lower, <<"e", "y">>)
       /\ ~HasSuffix(lower, <<"o", "y">>)
    THEN SubSeq(lower, 1, Len(lower) - 1) \o <<"i", "e", "s">>
    ELSE IF HasSuffix(lower, <<"s">>) \/ HasSuffix(lower, <<"x">>)
    THEN lower \o <<"e", "s">>
    ELSE lower \o <<"s">>

(* the kinds and the resource names of the examples *)
StatedExamples ==
    { <<<<"D", "e", "p", "l", "o", "y", "m", "e", "n", "t">>,
        <<"d", "e", "p", "l", "o", "y", "m", "e", "n", "t", "s">>>>,
      <<<<"P", "o", "l", "i", "c", "y">>,
        <<"p", "o", "l", "i", "c", "i", "e", "s">>>>,
      <<<<"I", "n", "g", "r", "e", "s", "s">>,
        <<"i", "n", "g", "r", "e", "s", "s", "e", "s">>>>,
      <<<<"N", "e", "t", "w", "o", "r", "k", "P", "o", "l", "i", "c", "y">>,
        <<"n", "e", "t", "w", "o", "r", "k", "p", "o", "l", "i", "c", "i", "e", "s">>>>,
      <<<<"P", "o", "d">>,
        <<"p", "o", "d", "s">>>> }

ExamplesHold ==
    \A k \in 1..Len(reply) :
        reply[k].op = "inferResourceFromKind" =>
            \A e \in StatedExamples :
                reply[k].kind = e[1] => reply[k].result = e[2]

(* C24 as stated: for every kind, inferResourceFromKind is the lower-cased *)
(* kind with a trailing y, unless after a, e or o, replaced by ies, else   *)
(* with es appended after s or x, else with s appended                     *)
C24_InferredByStatedRules ==
    /\ ExamplesHold
    /\ \A k \in 1..Len(reply) :
          reply[k].op = "inferResourceFromKind" =>
              reply[k].result = StatedPlural(Lower(reply[k].kind))

(* C24: as stated for every kind of more than one character and for every *)
(* kind that is not the single letter y; for the single letter y, in       *)
(* either case, the result is ys                                           *)
C24_InferredByStatedRulesBeyondY ==
    /\ ExamplesHold
    /\ \A k \in 1..Len(reply) :
          reply[k].op = "inferResourceFromKind" =>
              IF Lower(reply[k].kind) = <<"y">>
              THEN reply[k].result = <<"y", "s">>
              ELSE reply[k].result = StatedPlural(Lower(reply[k].kind))

(* NetworkPolicy inferred as networkpolicies *)
C24_Witness ==
    \E k \in 1..Len(reply) :
        /\ reply[k].op = "inferResourceFromKind"
        /\ reply[k].kind = <<"N", "e", "t", "w", "o", "r", "k", "P", "o", "l", "i", "c", "y">>
        /\ reply[k].result = <<"n", "e", "t", "w", "o", "r", "k", "p", "o", "l", "i", "c", "i", "e", "s">>

----------------------------------------------------------------------------
(* accurateBackend: Setup and Teardown called on one backend, with the     *)
(* create calls of seedObjects on the API server                           *)

(* dynClient.Create on the API server holding the objects of store: an     *)
(* object that is there already, or that admission rejects, is an error    *)
serverCreate(store, obj, admit) ==
    IF obj \in store THEN [store |-> store, err |-> <<"already exists">>]
    ELSE IF ~admit THEN [store |-> store, err |-> <<"rejected">>]
    ELSE [store |-> store \cup {obj}, err |-> NoError]

(* seedObjects, lines 97-124: the create calls it makes from object k on,  *)
(* and the objects on the server afterwards                                *)
RECURSIVE seedCreates(_, _, _, _, _)
seedCreates(objs, admitted, k, store, calls) ==
    IF k > Len(objs) THEN [store |-> store, calls |-> calls]
    ELSE LET c == serverCreate(store, objs[k], admitted[k])
         IN  seedCreates(objs, admitted, k + 1, c.store,
                         Append(calls, [obj |-> objs[k], err |-> c.err]))

AccurateCall(op, failAt, objs, done, seeded, before) ==
    [op |-> op, failAt |-> failAt, objs |-> objs, err |-> done.err,
     ready |-> IsReady(done.b), client |-> Client(done.b),
     started |-> done.b.starts - before.starts,
     stopped |-> done.b.stops - before.stops,
     calls |-> seeded.calls, store |-> seeded.store]

InitAccurate ==
    /\ config = DefaultConfig
    /\ backend = 1
    /\ heap = <<newAccurateBackend>>
    /\ out = <<>>
    /\ pc = "start"
    /\ policies = <<>>
    /\ resources = <<>>
    /\ summary = <<>>
    /\ ret = Return(FALSE, NoError)
    /\ trace = <<>>
    /\ resolver = <<>>
    /\ server = <<>>
    /\ requests = <<>>
    /\ disco = <<>>
    /\ reply = <<>>

CallAccurateSetup ==
    /\ heap[backend].starts < MaxCalls
    /\ heap[backend].stops < MaxCalls
    /\ \E rs \in ResourceLists, failAt \in AccurateFailures \cup {"none"} :
          \E admitted \in [1..Len(rs) -> BOOLEAN] :
              LET objs == objects(rs)
                  seeded == IF failAt = "none"
                            THEN seedCreates(objs, admitted, 1, {}, <<>>)
                            ELSE [store |-> {}, calls |-> <<>>]
                  created == [k \in 1..Len(objs) |->
                                 /\ failAt = "none"
                                 /\ seeded.calls[k].err = NoError]
                  done == accurateSetup(heap[backend], objs, failAt, created)
              IN  /\ heap' = [heap EXCEPT ![backend] = done.b]
                  /\ trace' = <<AccurateCall("Setup", failAt, objs, done, seeded,
                                             heap[backend])>>
    /\ UNCHANGED <<config, backend, out, pc, policies, resources, summary, ret,
                   resolver, server, requests, disco, reply>>

CallAccurateTeardown ==
    /\ heap[backend].stops < MaxCalls
    /\ \E stopOK \in BOOLEAN :
          LET done == accurateTeardown(heap[backend], stopOK)
          IN  /\ heap' = [heap EXCEPT ![backend] = done.b]
              /\ trace' = <<AccurateCall("Teardown", "none", <<>>, done,
                                         [store |-> {}, calls |-> <<>>],
                                         heap[backend])>>
    /\ UNCHANGED <<config, backend, out, pc, policies, resources, summary, ret,
                   resolver, server, requests, disco, reply>>

NextAccurate == CallAccurateSetup \/ CallAccurateTeardown

SpecAccurate == InitAccurate /\ [][NextAccurate]_vars

(* Properties of the accurate backend *)

(* C25: once the process has started and the clients are built, Setup      *)
(* succeeds and marks the backend ready whatever the create calls return;  *)
(* an object that is rejected or is there already is passed over and the   *)
(* objects after it are still created, in order                            *)
C25_SeedingIsBestEffort ==
    \A i \in 1..Len(trace) :
        (trace[i].op = "Setup" /\ trace[i].failAt = "none") =>
            /\ trace[i].err = NoError
            /\ trace[i].ready
            /\ trace[i].client
            /\ Len(trace[i].calls) = Len(trace[i].objs)
            /\ \A k \in 1..Len(trace[i].objs) :
                  /\ trace[i].calls[k].obj = trace[i].objs[k]
                  /\ (/\ trace[i].calls[k].err = NoError
                      /\ \A j \in 1..(k - 1) : trace[i].objs[j] # trace[i].objs[k])
                        => trace[i].objs[k] \in trace[i].store

(* a Setup that succeeds although the first object is rejected and the     *)
(* second, another object, is created                                      *)
C25_Witness ==
    \E i \in 1..Len(trace) :
        /\ trace[i].op = "Setup"
        /\ trace[i].err = NoError
        /\ trace[i].ready
        /\ Len(trace[i].calls) = 2
        /\ trace[i].calls[1].err = <<"rejected">>
        /\ trace[i].calls[2].err = NoError

----------------------------------------------------------------------------
(* The comparison of two summaries (CompareResults) *)

(* the results of one summary and the nanoseconds of a total duration *)
MaxResults == 2
MaxDuration == 1

(* a summary with its total duration *)
TimedSummary(mode, results, total) ==
    ("TotalDuration" :> total) @@ aggregate(NewSummary(mode), results)

(* the key of a result, fmt.Sprintf("%s/%s/%s/%s", ...): the four names    *)
(* with a "/" between them                                                 *)
resultKey(r) ==
    <<r.PolicyName, "/", r.RuleName, "/", r.ResourceKind, "/", r.ResourceName>>

(* the lookup map of a result list: the map m after the results from k on *)
RECURSIVE indexResults(_, _, _)
indexResults(m, results, k) ==
    IF k > Len(results) THEN m
    ELSE indexResults(MapPut(m, resultKey(results[k]), results[k]), results, k + 1)

Divergence(key, fastResult, accurateResult) ==
    [Key |-> key, FastStatus |-> fastResult.Status,
     AccurateStatus |-> accurateResult.Status,
     FastMessage |-> fastResult.Message, AccurateMsg |-> accurateResult.Message]

(* the division of two float64 values converted from int64: IEEE 754, a    *)
(* quotient of zero and zero is not a number, of a positive value and zero *)
(* infinite; a finite quotient is kept as its two terms                    *)
floatDivFaulting(a, f) ==
    IF f = 0 THEN "panic" ELSE [num |-> a, den |-> f]

floatDiv(a, f) ==
    IF f = 0
    THEN (IF a = 0 THEN "NaN" ELSE IF a > 0 THEN "+Inf" ELSE "-Inf")
    ELSE [num |-> a, den |-> f]

(* the body of the first comparison loop with a key missing on the         *)
(* accurate side counted as a divergence                                   *)
compareKeyMissingAsDivergent(report, fastMap, accurateMap, key) ==
    IF key \in DOMAIN accurateMap
       /\ fastMap[key].Status = accurateMap[key].Status
    THEN [report EXCEPT !.Matching = @ + 1]
    ELSE [report EXCEPT !.Divergent = @ + 1,
                        !.Divergences = Append(@,
                            [Key |-> key, FastStatus |-> fastMap[key].Status,
                             AccurateStatus |-> "", FastMessage |-> fastMap[key].Message,
                             AccurateMsg |-> <<>>])]

(* the body of the first comparison loop, for one key of fastMap *)
compareKey(report, fastMap, accurateMap, key) ==
    IF key \in DOMAIN accurateMap
    THEN IF fastMap[key].Status = accurateMap[key].Status
         THEN [report EXCEPT !.Matching = @ + 1]
         ELSE [report EXCEPT !.Divergent = @ + 1,
                             !.Divergences = Append(@,
                                 Divergence(key, fastMap[key], accurateMap[key]))]
    ELSE [report EXCEPT !.OnlyInFast = @ + 1]

(* the first comparison loop; order: the order in which the range over     *)
(* fastMap yields its keys                                                 *)
RECURSIVE compareLoop(_, _, _, _, _)
compareLoop(report, fastMap, accurateMap, order, k) ==
    IF k > Len(order) THEN report
    ELSE compareLoop(compareKey(report, fastMap, accurateMap, order[k]),
                     fastMap, accurateMap, order, k + 1)

(* the second comparison loop: the keys of accurateMap missing in fastMap *)
onlyInAccurate(fastMap, accurateMap) ==
    Cardinality(DOMAIN accurateMap \ DOMAIN fastMap)

CompareResults(fast, accurate, order) ==
    LET fastMap == indexResults(<<>>, fast.Results, 1)
        accurateMap == indexResults(<<>>, accurate.Results, 1)
        report == compareLoop([FastResults |-> fast, AccurateResults |-> accurate,
                               Matching |-> 0, Divergent |-> 0, OnlyInFast |-> 0,
                               OnlyInAccurate |-> 0, Divergences |-> <<>>,
                               SpeedupFactor |-> floatDiv(0, 1)],
                              fastMap, accurateMap, order, 1)
    IN  [report EXCEPT !.OnlyInAccurate = onlyInAccurate(fastMap, accurateMap),
                       !.SpeedupFactor = floatDiv(accurate.TotalDuration,
                                                  fast.TotalDuration)]

(* resources to compare: two of them differ in the namespace only *)
ComparedResources ==
    { [Kind |-> "Pod", Namespace |-> "default", Name |-> "web"],
      [Kind |-> "Pod", Namespace |-> "staging", Name |-> "web"],
      [Kind |-> "Deployment", Namespace |-> "", Name |-> "api"] }

CheckTeam == Rule("check-team", <<"Pod">>, TRUE, FALSE, FALSE, FALSE)

(* the results compared: results of Run for the policy pol-a with the rule *)
(* check-team, and a failure of the same rule for one of the resources     *)
ComparedResults(mode) ==
    { ruleResult([Name |-> "pol-a", Rules |-> <<CheckTeam>>], CheckTeam, r, mode) :
        r \in ComparedResources }
    \cup { TestResult("pol-a", "check-team",
                      [Kind |-> "Pod", Namespace |-> "default", Name |-> "web"],
                      "fail", <<"denied">>, mode) }

ComparedSummaries(mode) ==
    { TimedSummary(mode, results, total) :
        results \in SeqsUpTo(ComparedResults(mode), MaxResults),
        total \in 0..MaxDuration }

InitCompare ==
    /\ IdleRunner
    /\ trace = <<>>
    /\ resolver = <<>>
    /\ server = <<>>
    /\ requests \in ComparedSummaries(ModeFast) \X ComparedSummaries(ModeAccurate)
    /\ disco = <<>>
    /\ reply = <<>>

CallCompareResults ==
    /\ reply = <<>>
    /\ \E order \in KeyOrders(indexResults(<<>>, requests[1].Results, 1)) :
          reply' = <<CompareResults(requests[1], requests[2], order)>>
    /\ UNCHANGED <<idleVars, trace, resolver, server, requests, disco>>

NextCompare == CallCompareResults

SpecCompare == InitCompare /\ [][NextCompare]_vars

----------------------------------------------------------------------------
(* Properties of CompareResults *)

Compared == reply # <<>>

report == reply[1]

KeysOf(s) == { resultKey(s.Results[k]) : k \in 1..Len(s.Results) }

(* the results of a summary that have the key *)
WithKey(s, key) == { k \in 1..Len(s.Results) : resultKey(s.Results[k]) = key }

SharedKeys == KeysOf(requests[1]) \cap KeysOf(requests[2])

(* the records of the report for a key *)
RecordsOf(key) ==
    { d \in 1..Len(report.Divergences) : report.Divergences[d].Key = key }

(* the record d carries the status and the message of a result of each side *)
CarriesBoth(d) ==
    /\ \E k \in WithKey(requests[1], d.Key) :
          /\ d.FastStatus = requests[1].Results[k].Status
          /\ d.FastMessage = requests[1].Results[k].Message
    /\ \E k \in WithKey(requests[2], d.Key) :
          /\ d.AccurateStatus = requests[2].Results[k].Status
          /\ d.AccurateMsg = requests[2].Results[k].Message
    /\ d.FastStatus # d.AccurateStatus

(* the key has one status on each side *)
OneStatus(key) ==
    /\ \A k, l \in WithKey(requests[1], key) :
          requests[1].Results[k].Status = requests[1].Results[l].Status
    /\ \A k, l \in WithKey(requests[2], key) :
          requests[2].Results[k].Status = requests[2].Results[l].Status

StatusesEqual(key) ==
    \A k \in WithKey(requests[1], key), l \in WithKey(requests[2], key) :
       requests[1].Results[k].Status = requests[2].Results[l].Status

(* C26: CompareResults classifies by the key policyName/ruleName/          *)
(* resourceKind/resourceName.  Every key of both summaries is counted once,*)
(* as matching or as divergent; with equal statuses it is matching (no     *)
(* record), with different ones divergent with one record that carries the *)
(* statuses and the messages of both sides.  A key of one summary only is  *)
(* counted in the counter of that side only.  There are as many records as *)
(* divergent keys.                                                         *)
C26_ClassifiedByCompositeKey ==
    Compared =>
        /\ report.Matching + report.Divergent = Cardinality(SharedKeys)
        /\ report.OnlyInFast = Cardinality(KeysOf(requests[1]) \ KeysOf(requests[2]))
        /\ report.OnlyInAccurate = Cardinality(KeysOf(requests[2]) \ KeysOf(requests[1]))
        /\ Len(report.Divergences) = report.Divergent
        /\ \A d \in 1..Len(report.Divergences) :
              /\ report.Divergences[d].Key \in SharedKeys
              /\ CarriesBoth(report.Divergences[d])
              /\ RecordsOf(report.Divergences[d].Key) = {d}
        /\ \A key \in SharedKeys :
              OneStatus(key) =>
                 IF StatusesEqual(key) THEN RecordsOf(key) = {}
                 ELSE Cardinality(RecordsOf(key)) = 1

(* a comparison of one fast result with two accurate ones: the key of the  *)
(* fast result with another status, and a key the fast summary lacks       *)
C26_Witness ==
    /\ Compared
    /\ report.Divergent = 1
    /\ report.OnlyInAccurate = 1
    /\ report.OnlyInFast = 0
    /\ report.Matching = 0
    /\ Len(requests[1].Results) = 1

(* C27: with a fast summary whose total duration is zero the comparison    *)
(* returns a report, and its speedup is infinite or not a number           *)
C27_ZeroDurationGivesInfiniteOrUndefined ==
    (Compared /\ requests[1].TotalDuration = 0) =>
        report.SpeedupFactor \in {"+Inf", "NaN"}

C27_Witness ==
    /\ Compared
    /\ requests[1].TotalDuration = 0
    /\ requests[2].TotalDuration > 0
    /\ report.SpeedupFactor = "+Inf"

(* the lists of the resources compared, no resource twice *)
ComparedResourceLists ==
    { rs \in SeqsUpTo(ComparedResources, MaxResources) :
        \A a, b \in 1..Len(rs) : rs[a] = rs[b] => a = b }

(* the result lists Run returns in a mode for the policy lists and for the *)
(* lists of the resources compared                                         *)
RunResults(mode) ==
    { Results(resourceLoop([newFastBackend EXCEPT !.kind = mode, !.client = TRUE],
                           1, pols, rs, 1)) :
        pols \in PolicyLists, rs \in ComparedResourceLists }

FastRunResults == RunResults(ModeFast)

AccurateRunResults == RunResults(ModeAccurate)

(* C29: for two summaries Run can produce, the counters of the report      *)
(* cover every result of each summary once: Matching + Divergent +         *)
(* OnlyInFast is the number of the fast results and Matching + Divergent + *)
(* OnlyInAccurate the number of the accurate results                       *)
C29_EveryResultCountedOnce ==
    (/\ Compared
     /\ requests[1].Results \in FastRunResults
     /\ requests[2].Results \in AccurateRunResults) =>
        /\ report.Matching + report.Divergent + report.OnlyInFast
              = Len(requests[1].Results)
        /\ report.Matching + report.Divergent + report.OnlyInAccurate
              = Len(requests[2].Results)

----------------------------------------------------------------------------
(* The mock-aware context loaders (mockGctxLoader, mockAPILoader) *)

(* the calls of LoadData on one loader *)
MaxLoads == 2

(* a kyvernov1.ContextEntry: globalReference and apiCall are nil (<<>>) or *)
(* <<the name>>, <<the URL path>>                                          *)
ContextEntry(name, globalReference, apiCall) ==
    [Name |-> name, GlobalReference |-> globalReference, APICall |-> apiCall]

(* a loader: kind is its type; mockStore is nil (<<>>) or <<a resolver>>;  *)
(* data is nil (<<>>) or <<the bytes>>                                     *)
NewMockGCTXLoader(entry, mockStore) ==
    [kind |-> "mockGctxLoader", entry |-> entry, mockStore |-> mockStore,
     data |-> <<>>]

NewMockAPILoader(entry, mockStore) ==
    [kind |-> "mockAPILoader", entry |-> entry, mockStore |-> mockStore,
     data |-> <<>>]

HasLoaded(l) == l.data # <<>>

(* json.Marshal of a mock value: its bytes *)
Marshal(value) == <<"json", value>>

(* what a call of LoadData leaves: the loader, the entries it added to the *)
(* engine context, and the error it returns                                *)
Loaded(l, added, err) == [l |-> l, added |-> added, err |-> err]

(* the tail of LoadData after a mock was resolved; addOK: whether          *)
(* AddContextEntry accepted the entry                                      *)
useMock(l, value, addOK, text) ==
    IF ~addOK
    THEN Loaded(l, <<>>, Errorf(text, <<l.entry.Name, "add error">>))
    ELSE Loaded([l EXCEPT !.data = <<Marshal(value)>>],
                <<[name |-> l.entry.Name, data |-> Marshal(value)]>>, NoError)

(* mockGctxLoader.LoadData *)
gctxLoadData(l, addOK) ==
    IF l.entry.GlobalReference = <<>>
    THEN Loaded(l, <<>>, <<"context entry does not have global reference">>)
    ELSE IF l.mockStore # <<>>
            /\ HasGlobalContext(l.mockStore[1], l.entry.GlobalReference[1])
    THEN LET resolved == ResolveGlobalContext(l.mockStore[1],
                                              l.entry.GlobalReference[1])
         IN  IF resolved.err # NoError
             THEN Loaded(l, <<>>,
                         Errorf("failed to resolve mock GlobalContext",
                                <<l.entry.GlobalReference[1]>> \o resolved.err))
             ELSE useMock(l, resolved.value[1], addOK,
                          "failed to add mock context entry")
    ELSE Loaded(l, <<>>, NoError)

(* mockAPILoader.LoadData; resolved: the answer of ResolveAPICall when the *)
(* loader has a mock store                                                 *)
apiLoadData(l, resolved, addOK) ==
    IF l.entry.APICall = <<>>
    THEN Loaded(l, <<>>, <<"context entry does not have API call">>)
    ELSE IF l.mockStore # <<>> /\ resolved.err = NoError
    THEN useMock(l, resolved.value[1], addOK,
                 "failed to add mock API context entry")
    ELSE Loaded(l, <<>>, <<"no mock available for API call to", l.entry.APICall[1]>>)

(* the answers ResolveAPICall(urlPath, nil) can give to the loader *)
apiResolutions(l) ==
    IF l.entry.APICall = <<>> \/ l.mockStore = <<>>
    THEN { Resolved(<<>>, NoError) }
    ELSE ResolveAPICall(l.mockStore[1], l.entry.APICall[1])

(* The inputs of the loaders: the mock stores with at most one mock of     *)
(* each kind, and no mock store                                            *)
LoaderStores ==
    {<<>>} \cup
    { <<NewMockResolver(<<MockConfig(a, g)>>)>> :
        a \in SeqsUpTo(APICallMocks, 1), g \in SeqsUpTo(GlobalContextMocks, 1) }

GlobalEntries ==
    { ContextEntry("ctx", ref, <<>>) :
        ref \in {<<>>} \cup { <<n>> : n \in ContextNames \cup {"zone"} } }

APIEntries ==
    { ContextEntry("ctx", <<>>, call) :
        call \in {<<>>} \cup { <<u>> : u \in URLPaths } }

Loaders ==
    { NewMockGCTXLoader(e, st) : e \in GlobalEntries, st \in LoaderStores }
    \cup { NewMockAPILoader(e, st) : e \in APIEntries, st \in LoaderStores }

(* a call of LoadData in the history: the loader before and after, the     *)
(* entries of the engine context before and after, and the error           *)
LoadCall(before, after, ctxBefore, ctxAfter, err) ==
    [before |-> before, after |-> after, ctxBefore |-> ctxBefore,
     ctxAfter |-> ctxAfter, err |-> err]

(* requests: the loader; trace: the entries of the engine context *)
InitLoaders ==
    /\ IdleRunner
    /\ trace = <<>>
    /\ resolver = <<>>
    /\ server = <<>>
    /\ requests \in { <<l>> : l \in Loaders }
    /\ disco = <<>>
    /\ reply = <<>>

Load(o) ==
    /\ requests' = <<o.l>>
    /\ trace' = trace \o o.added
    /\ reply' = Append(reply, LoadCall(requests[1], o.l, trace, trace \o o.added, o.err))
    /\ UNCHANGED <<idleVars, resolver, server, disco>>

CallGctxLoadData ==
    /\ requests[1].kind = "mockGctxLoader"
    /\ Len(reply) < MaxLoads
    /\ \E addOK \in BOOLEAN : Load(gctxLoadData(requests[1], addOK))

CallAPILoadData ==
    /\ requests[1].kind = "mockAPILoader"
    /\ Len(reply) < MaxLoads
    /\ \E addOK \in BOOLEAN, resolved \in apiResolutions(requests[1]) :
          Load(apiLoadData(requests[1], resolved, addOK))

NextLoaders ==
    \/ CallGctxLoadData
    \/ CallAPILoadData

SpecLoaders == InitLoaders /\ [][NextLoaders]_vars

----------------------------------------------------------------------------
(* Properties of the loaders *)

(* no mock of the store of loader l matches the name or the URL path of    *)
(* its entry                                                               *)
NoMockMatches(l) ==
    IF l.kind = "mockGctxLoader"
    THEN /\ l.entry.GlobalReference # <<>>
         /\ \/ l.mockStore = <<>>
            \/ l.entry.GlobalReference[1] \notin DOMAIN l.mockStore[1].globalCtx
    ELSE /\ l.entry.APICall # <<>>
         /\ \/ l.mockStore = <<>>
            \/ /\ l.entry.APICall[1] \notin DOMAIN l.mockStore[1].apiCalls
               /\ \A p \in DOMAIN l.mockStore[1].apiCalls :
                     ~matchesPattern(p, l.entry.APICall[1])

(* C28: a call of LoadData on a loader whose entry no mock matches returns *)
(* an error, adds no entry to the engine context and leaves HasLoaded()    *)
(* false                                                                   *)
C28_NotFoundIsSurfaced ==
    \A k \in 1..Len(reply) :
       NoMockMatches(reply[k].before) =>
          /\ reply[k].err # NoError
          /\ reply[k].ctxAfter = reply[k].ctxBefore
          /\ ~HasLoaded(reply[k].after)

----------------------------------------------------------------------------
(* The external processes of Run *)

(* the backends whose Setup returned an error after the environment had    *)
(* started                                                                 *)
FailedAfterStart ==
    { trace[k].b : k \in { c \in Calls("Setup") :
                             /\ trace[c].err # NoError
                             /\ heap[trace[c].b].kind = ModeAccurate
                             /\ heap[trace[c].b].starts > 0 } }

(* every environment the backend heap[b] started has had Stop called *)
Stopped(b) == heap[b].stops >= heap[b].starts

(* C30: no external process is leaked.  When Setup of the accurate backend *)
(* has returned an error after the environment started, Stop has been      *)
(* called on it; and when Run has returned, Stop has been called on every  *)
(* environment started during the run.                                     *)
C30_NoProcessLeaked ==
    /\ \A b \in FailedAfterStart : Stopped(b)
    /\ Returned => \A b \in 1..Len(heap) : Stopped(b)

(* a run that fell back after the accurate Setup failed with the           *)
(* environment started, and returned a summary                             *)
C30_Witness ==
    /\ ReturnedSummary
    /\ FailedAfterStart # {}
    /\ \E b \in FailedAfterStart : heap[b].stops = 1
    /\ Calls("Teardown") # {}
====
